---------------------------- MODULE Spec2Model ----------------------------
(***************************************************************************)
(* A model of the RAG services of backend/app/services:                    *)
(*   - SimpleRAGService            (simple_rag_service.py)                 *)
(*   - the text segmenter SimpleRAGService._split_text, run step by step   *)
(*   - FixedRAGService over Chroma (rag_service.py, the one the routers    *)
(*     import)                                                             *)
(*   - FixedRAGService with the fallback store (fixed_rag_service.py)      *)
(*   - the embedding and similarity functions of SimpleRAGService          *)
(* Strings are sequences of one-character strings, so that slicing,        *)
(* rfind and strip are computed as Python computes them.                   *)
(***************************************************************************)
EXTENDS Integers, Sequences, FiniteSets, TLC

(***************************************************************************)
(* Bounds of the model.                                                    *)
(***************************************************************************)
\* longest text handed to the segmenter
MaxLen == 7
\* largest chunk_size handed to the segmenter
MaxChunkSize == 5
\* entries self.documents may hold
MaxDocs == 2
\* entries the Chroma collection may hold
MaxStore == 4
\* chunks the LangChain splitter may cut one PDF into
MaxPdfChunks == 2
\* longest text handed to the embedding functions
MaxEmbedLen == 2
\* longest vector handed to _cosine_similarity
MaxVectorLen == 2
\* most lines (chunks) a generation stream delivers
MaxLines == 2
\* entries the Chroma collection may hold when a stream is requested
MaxStreamStore == 2
\* how many ids uuid4 hands out in a run of the router
MaxUuids == 2
\* longest text, of two characters, handed to the segmenter in the runs with
\* large windows
MaxWideLen == 10
\* largest chunk_size in those runs
MaxWideChunkSize == 9

Min(a, b) == IF a < b THEN a ELSE b
Max(a, b) == IF a > b THEN a ELSE b

(***************************************************************************)
(* Python string primitives.                                               *)
(***************************************************************************)
\* the characters texts are drawn from: a letter, the two sentence
\* boundaries of _split_text, and a blank
Chars == {"a", ".", "\n", " "}
\* str.strip() removes these from both ends
Whitespace == {" ", "\n"}

\* a slice index as Python normalises it: negative counts from the end,
\* and the result is clamped to 0..n
PyIndex(i, n) == IF i < 0 THEN Max(i + n, 0) ELSE Min(i, n)

\* s[a:b]
Slice(s, a, b) ==
    LET lo == PyIndex(a, Len(s))
        hi == PyIndex(b, Len(s))
    IN  IF lo >= hi THEN << >> ELSE SubSeq(s, lo + 1, hi)

\* s.rfind(c): the highest 0-based index of c in s, or -1
RFind(s, c) ==
    LET at == {i \in 1..Len(s) : s[i] = c}
    IN  IF at = {} THEN -1 ELSE (CHOOSE i \in at : \A j \in at : j <= i) - 1

\* str.strip() with every character kept: the planted bug of a missing trim
StripNothing(s) == s

\* s.strip()
Strip(s) ==
    LET keep == {i \in 1..Len(s) : s[i] \notin Whitespace}
    IN  IF keep = {} THEN << >>
        ELSE SubSeq(s, CHOOSE i \in keep : \A j \in keep : i <= j,
                       CHOOSE i \in keep : \A j \in keep : j <= i)

(***************************************************************************)
(* SimpleRAGService._split_text: one pass of the while loop for the window *)
(* that starts at st.  The result holds the chunk as cut (before strip)    *)
(* and the next value of start.                                            *)
(***************************************************************************)
\* end = min(start + chunk_size, len(text))
WindowEnd(txt, st, size) == Min(st + size, Len(txt))

SplitIter(txt, size, ovl, st) ==
    LET end         == WindowEnd(txt, st, size)
        chunk       == Slice(txt, st, end)
        last_period == RFind(chunk, ".")
        last_newline == RFind(chunk, "\n")
        break_point == Max(last_period, last_newline)
    IN  IF end < Len(txt)
        THEN \* break_point > start + chunk_size * 0.5, in integers
             IF 2 * break_point > 2 * st + size
             THEN [chunk |-> Slice(chunk, 0, break_point + 1),
                   start |-> st + break_point + 1 - ovl]
             ELSE [chunk |-> chunk, start |-> end - ovl]
        ELSE [chunk |-> chunk, start |-> end]

(***************************************************************************)
(* _split_text run to completion, for the callers that need its result.    *)
(***************************************************************************)
RECURSIVE SplitFrom(_, _, _, _)
SplitFrom(txt, size, ovl, st) ==
    IF st >= Len(txt) THEN << >>
    ELSE LET it == SplitIter(txt, size, ovl, st)
             c  == Strip(it.chunk)
         IN  (IF c # << >> THEN <<c>> ELSE << >>)
                 \o SplitFrom(txt, size, ovl, it.start)

SplitText(txt, size, ovl) == SplitFrom(txt, size, ovl, 0)

(***************************************************************************)
(* The windows of a call of _split_text that returns: for each pass of the *)
(* loop, where the window starts and the chunk as cut, before strip.       *)
(***************************************************************************)
RECURSIVE Windows(_, _, _, _)
Windows(txt, size, ovl, st) ==
    IF st >= Len(txt) THEN << >>
    ELSE LET it == SplitIter(txt, size, ovl, st)
         IN  <<[start |-> st, chunk |-> it.chunk]>>
                 \o Windows(txt, size, ovl, it.start)

(***************************************************************************)
(* Settings (core/config.py).  Settings is a pydantic BaseSettings: every   *)
(* field can be overridden from the environment or .env, so the model      *)
(* draws the RAG settings from the defaults and from one small override.   *)
(***************************************************************************)
DefaultSettings == [chunk_size |-> 1000, chunk_overlap |-> 200, retrieval_k |-> 4]
SmallSettings   == [chunk_size |-> 20, chunk_overlap |-> 5, retrieval_k |-> 3]
SettingsValues  == {DefaultSettings, SmallSettings}

(***************************************************************************)
(* Inputs of the services.                                                 *)
(***************************************************************************)
\* document ids passed to process_document and delete_document
DocIds == {"d1", "d2"}
\* an id no document is ever stored under
UnknownId == "d9"
\* a path that open() can read, and one it cannot
GoodPath == <<"/", "a", ".", "p">>
MissingPath == <<"/", "x">>
FilePaths == {GoodPath, MissingPath}
Readable(path) == path = GoodPath

\* the document_ids argument of a query: None (given = FALSE) or a list
NoScope == [given |-> FALSE, ids |-> << >>]
Scopes == {NoScope} \cup
          {[given |-> TRUE, ids |-> l] :
              l \in {<< >>, <<"d1">>, <<"d2">>, <<UnknownId>>}}
\* Python truthiness of document_ids: None and [] are false
Truthy(scope) == scope.given /\ scope.ids # << >>
Range(f) == {f[i] : i \in DOMAIN f}

\* vectors _get_embedding hands back while documents are ingested (the
\* remote model's answer or the hash fallback): two directions, and a
\* vector of another length with a negative component
EmbeddingValues == {<<1, 0>>, <<1, 1>>, <<-1>>}
\* vectors _get_embedding hands back for a question: the same, or a vector
\* of another length (the provider changed dimension since ingestion)
QuestionEmbeddings == EmbeddingValues \cup {<<1>>}

\* what the generation endpoint can do: answer, answer without a
\* 'response' field, answer with another status, or fail to connect
GenOutcomes == {"ok", "no_field", "non200", "exception"}

(***************************************************************************)
(* SimpleRAGService.process_document: the text it builds.                  *)
(***************************************************************************)
\* f"Document content from {file_path}"
DocumentText(path) ==
    <<"D", "o", "c", "u", "m", "e", "n", "t", " ",
      "c", "o", "n", "t", "e", "n", "t", " ",
      "f", "r", "o", "m", " ">> \o path

(***************************************************************************)
(* SimpleRAGService._cosine_similarity.  The float dot/(|a||b|) is kept as  *)
(* the exact fraction sign(dot)*dot^2 / (|a|^2 |b|^2), which orders pairs  *)
(* of vectors as the cosine does; 0.0 is 0/1.                              *)
(***************************************************************************)
RECURSIVE Dot(_, _)
Dot(a, b) == IF a = << >> THEN 0 ELSE a[1] * b[1] + Dot(Tail(a), Tail(b))

ZeroSimilarity == [num |-> 0, den |-> 1]

\* the cosine without the length check: zip() pairs the common prefix
CosineSimilarityZip(a, b) ==
    LET n == IF Len(a) < Len(b) THEN Len(a) ELSE Len(b)
        dot_product == Dot(SubSeq(a, 1, n), SubSeq(b, 1, n))
        norm_a2 == Dot(a, a)
        norm_b2 == Dot(b, b)
    IN  IF norm_a2 = 0 \/ norm_b2 = 0 THEN ZeroSimilarity
        ELSE [num |-> (IF dot_product < 0 THEN -1 ELSE 1)
                          * dot_product * dot_product,
              den |-> norm_a2 * norm_b2]

CosineSimilarity(a, b) ==
    IF Len(a) # Len(b) THEN ZeroSimilarity
    ELSE LET dot_product == Dot(a, b)
             norm_a2 == Dot(a, a)
             norm_b2 == Dot(b, b)
         IN  IF norm_a2 = 0 \/ norm_b2 = 0 THEN ZeroSimilarity
             ELSE [num |-> (IF dot_product < 0 THEN -1 ELSE 1)
                               * dot_product * dot_product,
                   den |-> norm_a2 * norm_b2]

\* comparison of two similarities
SimGreater(x, y) == x.num * y.den > y.num * x.den
SimEqual(x, y)   == x.num * y.den = y.num * x.den

(***************************************************************************)
(* SimpleRAGService.query_documents, its pure steps.                       *)
(***************************************************************************)
\* the scope test with the filter dropped: every document is searched
InScopeAlways(doc, scope) == TRUE

\* not (document_ids and doc["id"] not in document_ids)
InScope(doc, scope) == ~(Truthy(scope) /\ doc.id \notin Range(scope.ids))

\* the entries the inner loop appends for one document; entry is the
\* document's position in self.documents (history, not in the code's dict)
DocSimilarities(doc, entry, question_embedding) ==
    [i \in 1..Len(doc.embeddings) |->
        [doc_id |-> doc.id,
         chunk_index |-> i - 1,
         content |-> doc.chunks[i],
         similarity |-> CosineSimilarity(question_embedding, doc.embeddings[i]),
         entry |-> entry]]

\* the list `similarities` before sorting, over documents[from..]
RECURSIVE Similarities(_, _, _, _)
Similarities(docs, from, scope, question_embedding) ==
    IF from > Len(docs) THEN << >>
    ELSE (IF InScope(docs[from], scope)
          THEN DocSimilarities(docs[from], from, question_embedding)
          ELSE << >>)
         \o Similarities(docs, from + 1, scope, question_embedding)

\* x put in front of the elements that are not greater: equal elements end
\* up in reverse order (what sorting ascending and reversing would give)
InsertDescendingUnstable(sorted, x) ==
    LET ahead == {i \in 1..Len(sorted) : SimGreater(sorted[i].similarity, x.similarity)}
        n == Cardinality(ahead)
    IN  SubSeq(sorted, 1, n) \o <<x>> \o SubSeq(sorted, n + 1, Len(sorted))

\* x put into a list sorted by similarity descending, behind every element
\* that is not smaller: later elements stay behind equal earlier ones
InsertDescending(sorted, x) ==
    LET ahead == {i \in 1..Len(sorted) : ~SimGreater(x.similarity, sorted[i].similarity)}
        n == Cardinality(ahead)
    IN  SubSeq(sorted, 1, n) \o <<x>> \o SubSeq(sorted, n + 1, Len(sorted))

\* similarities.sort(key=lambda x: x["similarity"], reverse=True): list.sort
\* is stable, also with reverse=True
RECURSIVE SortDescending(_)
SortDescending(sims) ==
    IF sims = << >> THEN << >>
    ELSE InsertDescending(SortDescending(SubSeq(sims, 1, Len(sims) - 1)),
                          sims[Len(sims)])

\* the slice with its bound dropped: every candidate is returned
TopResultsAll(sims, k) == sims

\* similarities[:settings.retrieval_k]
TopResults(sims, k) == Slice(sims, 0, k)

\* a join that writes a placeholder when there is nothing to join
RECURSIVE JoinOrPlaceholder(_)
JoinOrPlaceholder(parts) ==
    IF parts = << >> THEN <<"-">>
    ELSE IF Len(parts) = 1 THEN parts[1]
    ELSE parts[1] \o <<"\n", "\n">> \o JoinOrPlaceholder(Tail(parts))

\* "\n\n".join(parts)
RECURSIVE Join(_)
Join(parts) ==
    IF parts = << >> THEN << >>
    ELSE IF Len(parts) = 1 THEN parts[1]
    ELSE parts[1] \o <<"\n", "\n">> \o Join(Tail(parts))

\* result["content"][:200] + "..."
SourceContent(content) == Slice(content, 0, 200) \o <<".", ".", ".">>

\* _generate_response: the string it returns for each outcome of the
\* request to /api/generate; it never raises
GenerateResponse(outcome) ==
    CASE outcome = "ok"        -> "<the model's answer>"
      [] outcome = "no_field"  -> "Sorry, I couldn't generate a response."
      [] outcome = "non200"    -> "Sorry, I couldn't connect to the AI model."
      [] outcome = "exception" -> "Error generating response: <cause>"

\* get_document_count(), SimpleRAGService and fixed_rag_service.py alike
GetDocumentCount(docs) == Len(docs)

(***************************************************************************)
(* SimpleRAGService.delete_document, its outcome: the new list and the     *)
(* success flag.                                                           *)
(***************************************************************************)
\* deletion by list.remove of the first match: leaves later entries of the
\* id in place, and raises (caught: success False) when there is none
DeleteFirstMatch(docs, document_id) ==
    LET at == {i \in 1..Len(docs) : docs[i].id = document_id}
    IN  IF at = {} THEN [documents |-> docs, success |-> FALSE]
        ELSE LET k == CHOOSE i \in at : \A j \in at : i <= j
             IN  [documents |-> SubSeq(docs, 1, k - 1) \o SubSeq(docs, k + 1, Len(docs)),
                  success |-> TRUE]

\* deletion that treats a missing id as an error: success False when no
\* entry matches
DeleteRejectsMissing(docs, document_id) ==
    LET Keep(doc) == doc.id # document_id
    IN  [documents |-> SelectSeq(docs, Keep),
         success |-> \E i \in 1..Len(docs) : docs[i].id = document_id]

\* self.documents = [doc for doc in self.documents if doc["id"] != document_id]
DeleteOutcome(docs, document_id) ==
    LET Keep(doc) == doc.id # document_id
    IN  [documents |-> SelectSeq(docs, Keep), success |-> TRUE]

VARIABLES
    \* ---- _split_text, step by step ----
    text,        \* argument text
    chunk_size,  \* argument chunk_size
    overlap,     \* argument overlap
    start,       \* local start
    chunks,      \* local chunks (the list returned); the model keeps its
                 \* first ChunkCap entries
    visited,     \* history: the values start had at the head of the loop
                 \* in earlier iterations of this call
    pc           \* "idle" before the call, "loop" at the head of the while
                 \* loop, "done" after return

VARIABLES
    service,     \* which machine this run is of: "split", "simple",
                 \* "chroma" (rag_service.py) or "fixed" (fixed_rag_service.py)
    settings     \* app.core.config.settings, fixed for the process lifetime

VARIABLES
    \* ---- SimpleRAGService ----
    documents,   \* self.documents; processed_at (a timestamp nothing reads)
                 \* is left out
    result,      \* what the call in progress has returned, with the
                 \* arguments it was given and, for a query, its locals
                 \* top_results and context; NoResult between calls
    deleted      \* history: ids deleted with success and not stored since

splitVars == <<text, chunk_size, overlap, start, chunks, visited, pc>>
VARIABLES
    \* ---- FixedRAGService, rag_service.py and fixed_rag_service.py ----
    initialization_error,  \* rag_service.py: self.initialization_error is set
    vectorstore,           \* self.vectorstore (and self.retriever) is not None
    rag_chain,             \* self.rag_chain is not None
    chroma_db,             \* the Chroma collection under chroma_persist_directory
    LANGCHAIN_AVAILABLE,   \* fixed_rag_service.py: the imports succeeded
    storage                \* fixed_rag_service.py: ./rag_documents_db.json

simpleVars == <<documents, result, deleted>>
chainVars == <<initialization_error, vectorstore, rag_chain, chroma_db>>
fixedVars == <<LANGCHAIN_AVAILABLE, storage>>

VARIABLES
    \* ---- one streaming request, api/chat.py send_message_stream ----
    generate_response,  \* the async generator generate_response: where it
                        \* stands (pc), the request's document_ids, the
                        \* service result's success flag, and (history) the
                        \* events it has yielded
    stream_generator    \* result["stream"], the service's stream_generator:
                        \* its state, what its upstream has still to
                        \* deliver, (history) the fragments it has yielded,
                        \* the list object result["sources"] with (history)
                        \* its value when the call returned, the ids of the
                        \* documents put into the prompt context, and
                        \* whether the HTTP response of requests.post is
                        \* still open

streamVars == <<generate_response, stream_generator>>

VARIABLES
    \* ---- api/documents.py, the router over rag_service.py ----
    documents_db,       \* the module's dict documents_db: id -> metadata
    DOCUMENTS_DB_FILE,  \* ./documents_db.json, what save_documents_db left
    upload_directory,   \* the ids whose file <id>.pdf is in
                        \* settings.upload_directory
    upload_document,    \* per client, the frame of its upload_document
                        \* request: suspended at `await file.read()` or not
                        \* running
    \* ---- SimpleRAGService, its coroutines one await at a time ----
    tasks               \* per task, the frame of the coroutine it runs:
                        \* the method, where it is suspended, its arguments
                        \* and locals

appVars == <<documents_db, DOCUMENTS_DB_FILE, upload_directory, upload_document,
             tasks>>

vars == <<service, settings, splitVars, simpleVars, chainVars, fixedVars,
          streamVars, appVars>>

\* no streaming request has been made
NoStream ==
    [kind |-> "none", state |-> "none", upstream |-> << >>, yielded |-> << >>,
     sources |-> << >>, sources_at_return |-> << >>, context |-> << >>,
     response_open |-> FALSE]

StreamIdle ==
    /\ generate_response = [pc |-> "idle", document_ids |-> << >>,
                            success |-> FALSE, events |-> << >>]
    /\ stream_generator = NoStream

\* the clients of the router and the tasks of the event loop
Clients == {"c1", "c2"}
TaskIds == {"t1", "t2"}

\* no frame: the coroutine is not running
NoFrame == [pc |-> "none"]

\* the file ./documents_db.json does not exist
NoDbFile == [exists |-> FALSE, data |-> << >>]

\* no request to the router has been made and no coroutine started
AppIdle ==
    /\ documents_db = << >>
    /\ DOCUMENTS_DB_FILE = NoDbFile
    /\ upload_directory = {}
    /\ upload_document = [c \in Clients |-> NoFrame]
    /\ tasks = [t \in TaskIds |-> NoFrame]

\* the segmenter machine at rest
SplitIdle ==
    /\ text = << >>
    /\ chunk_size = 1
    /\ overlap = 0
    /\ start = 0
    /\ chunks = << >>
    /\ visited = {}
    /\ pc = "idle"

\* no call in progress
NoResult == [op |-> "none"]

\* the file ./rag_documents_db.json does not exist
NoStorage == [exists |-> FALSE, docs |-> << >>]

\* no LangChain objects, an empty collection, no storage file
ChainIdle ==
    /\ initialization_error = FALSE
    /\ vectorstore = FALSE
    /\ rag_chain = FALSE
    /\ chroma_db = << >>
    /\ LANGCHAIN_AVAILABLE = FALSE
    /\ storage = NoStorage

\* SimpleRAGService.__init__
SimpleFresh ==
    /\ documents = << >>
    /\ result = NoResult
    /\ deleted = {}

\* every text of at most n characters
Texts(n) == UNION {[1..k -> Chars] : k \in 0..n}

\* no terminating call on a text of at most MaxLen characters returns more
\* chunks than this; a call that loops forever stops recording here
ChunkCap == MaxLen + 2

\* before the call: no arguments yet
SplitInit ==
    /\ service = "split"
    /\ settings = DefaultSettings
    /\ SplitIdle
    /\ StreamIdle
    /\ AppIdle
    /\ SimpleFresh
    /\ ChainIdle

\* a call _split_text(text, chunk_size, overlap) within the contract
\* chunk_size > 0, 0 <= overlap < chunk_size: chunks = [], start = 0
SplitCall ==
    /\ pc = "idle"
    /\ text' \in Texts(MaxLen)
    /\ chunk_size' \in 1..MaxChunkSize
    /\ overlap' \in 0..(chunk_size' - 1)
    /\ start' = 0
    /\ chunks' = << >>
    /\ visited' = {}
    /\ pc' = "loop"
    /\ UNCHANGED <<service, settings, appVars, streamVars, simpleVars, chainVars, fixedVars>>

\* one iteration of `while start < len(text)`
SplitStep ==
    /\ pc = "loop"
    /\ start < Len(text)
    /\ LET it == SplitIter(text, chunk_size, overlap, start)
       IN  /\ start' = it.start
           /\ chunks' = IF Strip(it.chunk) # << >> /\ Len(chunks) < ChunkCap
                          THEN Append(chunks, Strip(it.chunk))
                          ELSE chunks
    /\ visited' = visited \cup {start}
    /\ UNCHANGED <<text, chunk_size, overlap, pc>>
    /\ UNCHANGED <<service, settings, appVars, streamVars, simpleVars, chainVars, fixedVars>>

\* the loop condition fails: return chunks
SplitReturn ==
    /\ pc = "loop"
    /\ start >= Len(text)
    /\ pc' = "done"
    /\ UNCHANGED <<text, chunk_size, overlap, start, chunks, visited>>
    /\ UNCHANGED <<service, settings, appVars, streamVars, simpleVars, chainVars, fixedVars>>

SplitNext == SplitCall \/ SplitStep \/ SplitReturn

SplitSpec == SplitInit /\ [][SplitNext]_vars

\* the texts of the runs with large windows: plain characters and periods
WideTexts == UNION {[1..k -> {"a", "."}] : k \in 0..MaxWideLen}

\* a call _split_text(text, chunk_size, overlap) within the contract, with a
\* window of up to MaxWideChunkSize characters
SplitWideCall ==
    /\ pc = "idle"
    /\ text' \in WideTexts
    /\ chunk_size' \in 1..MaxWideChunkSize
    /\ overlap' \in 0..(chunk_size' - 1)
    /\ start' = 0
    /\ chunks' = << >>
    /\ visited' = {}
    /\ pc' = "loop"
    /\ UNCHANGED <<service, settings, appVars, streamVars, simpleVars, chainVars, fixedVars>>

SplitWideNext == SplitWideCall \/ SplitStep \/ SplitReturn

SplitWideSpec == SplitInit /\ [][SplitWideNext]_vars

(***************************************************************************)
(* C1: _split_text terminates on every input within its contract.  The    *)
(* loop's only state is start (text, chunk_size and overlap are fixed and  *)
(* chunks is only appended to), so the call runs forever exactly when      *)
(* start comes back to a value it had at the head of an earlier iteration: *)
(* the scan position must never be one it has already been at.             *)
(***************************************************************************)
C1_SplitTerminates == (pc = "loop") => (start \notin visited)

(***************************************************************************)
(* C2: every chunk in the list _split_text builds is non-empty, is         *)
(* trimmed of whitespace at both ends, and is at most chunk_size long.     *)
(***************************************************************************)
C2_ChunksTrimmedAndBounded ==
    \A i \in 1..Len(chunks) :
        /\ chunks[i] # << >>
        /\ chunks[i][1] \notin Whitespace
        /\ chunks[i][Len(chunks[i])] \notin Whitespace
        /\ Len(chunks[i]) <= chunk_size

\* a finished call that returned several chunks, one of them a full window
\* and one of them shortened (cut at a boundary or trimmed)
C2_Witness ==
    /\ pc = "done"
    /\ Len(chunks) >= 2
    /\ \E i \in 1..Len(chunks) : Len(chunks[i]) = chunk_size
    /\ \E i \in 1..Len(chunks) : Len(chunks[i]) < chunk_size
    /\ \E i \in 1..Len(text) : text[i] \in Whitespace

(***************************************************************************)
(* SimpleRAGService (simple_rag_service.py).  Its methods are coroutines   *)
(* that call requests.post directly: no await in them ever suspends, so    *)
(* each call runs from entry to return as one step.                        *)
(***************************************************************************)
SimpleInit ==
    /\ service = "simple"
    /\ settings \in SettingsValues
    /\ SimpleFresh
    /\ SplitIdle
    /\ StreamIdle
    /\ AppIdle
    /\ ChainIdle

\* process_document(file_path, document_id)
SimpleProcessDocument ==
    /\ service = "simple"
    /\ result = NoResult
    /\ \E file_path \in FilePaths, document_id \in DocIds :
          IF ~Readable(file_path)
          THEN \* open() raises: except Exception
               /\ result' = [op |-> "process", document_id |-> document_id,
                             success |-> FALSE, error |-> "<str(e)>"]
               /\ UNCHANGED <<documents, deleted>>
          ELSE LET txt == DocumentText(file_path)
                   cks == SplitText(txt, settings.chunk_size, settings.chunk_overlap)
               IN  /\ Len(documents) < MaxDocs
                   /\ \E chunk_embeddings \in [1..Len(cks) -> EmbeddingValues] :
                         documents' = Append(documents,
                                             [id |-> document_id,
                                              file_path |-> file_path,
                                              chunks |-> cks,
                                              embeddings |-> chunk_embeddings])
                   /\ result' = [op |-> "process", document_id |-> document_id,
                                 success |-> TRUE, chunks |-> Len(cks), text |-> txt]
                   /\ deleted' = deleted \ {document_id}
    /\ UNCHANGED <<service, settings, appVars, streamVars, splitVars, chainVars, fixedVars>>

\* query_documents(question, document_ids)
SimpleQueryDocuments ==
    /\ service = "simple"
    /\ result = NoResult
    /\ \E question_embedding \in QuestionEmbeddings, document_ids \in Scopes,
          generation \in GenOutcomes :
          LET similarities == SortDescending(
                                  Similarities(documents, 1, document_ids,
                                               question_embedding))
              top_results == TopResults(similarities, settings.retrieval_k)
              context == Join([i \in 1..Len(top_results) |-> top_results[i].content])
          IN  result' = [op |-> "query",
                         question_embedding |-> question_embedding,
                         document_ids |-> document_ids,
                         success |-> TRUE,
                         \* history: how the one request to /api/generate
                         \* ended, and the context its prompt carried
                         generation |-> generation,
                         prompt_context |-> <<context>>,
                         response |-> GenerateResponse(generation),
                         sources |-> [i \in 1..Len(top_results) |->
                                        [content |-> SourceContent(top_results[i].content),
                                         similarity |-> top_results[i].similarity]],
                         top_results |-> top_results,
                         context |-> context]
    /\ UNCHANGED <<documents, deleted>>
    /\ UNCHANGED <<service, settings, appVars, streamVars, splitVars, chainVars, fixedVars>>

\* delete_document(document_id)
SimpleDeleteDocument ==
    /\ service = "simple"
    /\ result = NoResult
    /\ \E document_id \in DocIds \cup {UnknownId} :
          LET out == DeleteOutcome(documents, document_id)
          IN  /\ documents' = out.documents
              /\ result' = [op |-> "delete", document_id |-> document_id,
                            success |-> out.success,
                            \* history: the id had already been deleted
                            again |-> document_id \in deleted]
              /\ deleted' = IF out.success THEN deleted \cup {document_id}
                                           ELSE deleted
    /\ UNCHANGED <<service, settings, appVars, streamVars, splitVars, chainVars, fixedVars>>

\* get_document_count()
SimpleGetDocumentCount ==
    /\ service = "simple"
    /\ result = NoResult
    /\ result' = [op |-> "count", count |-> GetDocumentCount(documents)]
    /\ UNCHANGED <<documents, deleted>>
    /\ UNCHANGED <<service, settings, appVars, streamVars, splitVars, chainVars, fixedVars>>

\* the caller takes the returned value; the next call can start
Return ==
    /\ result # NoResult
    /\ result' = NoResult
    /\ UNCHANGED <<documents, deleted>>
    /\ UNCHANGED <<service, settings, appVars, streamVars, splitVars, chainVars, fixedVars>>

SimpleNext ==
    \/ SimpleProcessDocument
    \/ SimpleQueryDocuments
    \/ SimpleDeleteDocument
    \/ SimpleGetDocumentCount
    \/ Return

SimpleSpec == SimpleInit /\ [][SimpleNext]_vars

(***************************************************************************)
(* SimpleRAGService._simple_embedding, _get_embedding and                  *)
(* _cosine_similarity as functions of their arguments.  A vector component *)
(* n stands for the float n / 255.0, for every vector of the model (the    *)
(* cosine of two vectors does not depend on the unit).                     *)
(***************************************************************************)
\* len(embedding) < 384, embedding[:384]
EmbeddingDim == 384

\* the number of hexadecimal digits of hash_obj.hexdigest()
HexDigestLen == 32

\* the denominator of int(hash_hex[i:i+2], 16) / 255.0
ByteMax == 255

\* ord(c) of the characters of the model
Ord(c) ==
    CASE c = "a"  -> 97
      [] c = "."  -> 46
      [] c = " "  -> 32
      [] c = "\n" -> 10

RECURSIVE WeightedSum(_, _, _)
WeightedSum(txt, i, k) ==
    IF i > Len(txt) THEN 0
    ELSE Ord(txt[i]) * (i + k) + WeightedSum(txt, i + 1, k)

\* hashlib.md5(text.encode()).hexdigest(), as the values of its digits.
\* MD5 is the library's; what the service relies on is a digest of
\* HexDigestLen hexadecimal digits that the text alone determines, and
\* this digest is one.
HexDigest(txt) ==
    [k \in 1..HexDigestLen |-> (WeightedSum(txt, 1, k) + 7 * k + Len(txt)) % 16]

\* int(hash_hex[i:i+2], 16), to be divided by 255.0, for i = 0, 2, 4, ...
DigestValues(txt) ==
    LET hash_hex == HexDigest(txt)
    IN  [j \in 1..(Len(hash_hex) \div 2) |->
            16 * hash_hex[2 * j - 1] + hash_hex[2 * j]]

\* the digest values without the padding loop
SimpleEmbeddingUnpadded(txt) ==
    Slice(DigestValues(txt), 0, EmbeddingDim)

\* _simple_embedding(text)
SimpleEmbedding(txt) ==
    LET embedding == DigestValues(txt)
        padded == embedding \o [i \in 1..Max(0, EmbeddingDim - Len(embedding)) |-> 0]
    IN  Slice(padded, 0, EmbeddingDim)

\* what requests.post(.../api/embeddings) gives for each outcome: it
\* raises, or answers with a status code and (for 200) a JSON object
EmbedOutcomes == {"ok", "no_field", "non200", "exception"}

EmbeddingResponse(outcome, remote) ==
    CASE outcome = "exception" -> [raises |-> TRUE]
      [] outcome = "non200"    -> [raises |-> FALSE, status_code |-> 500]
      [] outcome = "no_field"  -> [raises |-> FALSE, status_code |-> 200,
                                   data |-> [error |-> "<message>"]]
      [] outcome = "ok"        -> [raises |-> FALSE, status_code |-> 200,
                                   data |-> [embedding |-> remote]]

\* _get_embedding with the KeyError of data["embedding"] left uncaught
GetEmbeddingKeyError(txt, response) ==
    IF response.raises THEN [raised |-> FALSE, value |-> SimpleEmbedding(txt)]
    ELSE IF response.status_code = 200
    THEN IF "embedding" \in DOMAIN response.data
         THEN [raised |-> FALSE, value |-> response.data.embedding]
         ELSE [raised |-> TRUE]
    ELSE [raised |-> FALSE, value |-> SimpleEmbedding(txt)]

\* _get_embedding(text): whether it raises, and the vector it returns
GetEmbedding(txt, response) ==
    IF response.raises
    THEN \* except Exception
         [raised |-> FALSE, value |-> SimpleEmbedding(txt)]
    ELSE IF response.status_code = 200
    THEN IF "embedding" \in DOMAIN response.data
         THEN [raised |-> FALSE, value |-> response.data.embedding]
         ELSE \* data["embedding"] raises KeyError: except Exception
              [raised |-> FALSE, value |-> SimpleEmbedding(txt)]
    ELSE [raised |-> FALSE, value |-> SimpleEmbedding(txt)]

\* the texts and vectors the three functions are applied to
EmbedTexts == Texts(MaxEmbedLen)
Vectors == UNION {[1..n -> {-1, 0, 1}] : n \in 0..MaxVectorLen}

\* no call made yet
EmbedInit ==
    /\ service = "embed"
    /\ settings = DefaultSettings
    /\ SimpleFresh
    /\ SplitIdle
    /\ StreamIdle
    /\ AppIdle
    /\ ChainIdle

\* a call _simple_embedding(text), and the same call once more
SimpleEmbeddingCall ==
    /\ service = "embed"
    /\ result = NoResult
    /\ \E txt \in EmbedTexts :
          result' = [op |-> "_simple_embedding", text |-> txt,
                     value |-> SimpleEmbedding(txt),
                     again |-> SimpleEmbedding(txt)]
    /\ UNCHANGED <<documents, deleted>>
    /\ UNCHANGED <<service, settings, appVars, streamVars, splitVars, chainVars, fixedVars>>

\* a call _get_embedding(text)
GetEmbeddingCall ==
    /\ service = "embed"
    /\ result = NoResult
    /\ \E txt \in EmbedTexts, outcome \in EmbedOutcomes,
          remote \in QuestionEmbeddings :
          LET out == GetEmbedding(txt, EmbeddingResponse(outcome, remote))
          IN  result' = [op |-> "_get_embedding", text |-> txt,
                         outcome |-> outcome, remote |-> remote,
                         out |-> out]
    /\ UNCHANGED <<documents, deleted>>
    /\ UNCHANGED <<service, settings, appVars, streamVars, splitVars, chainVars, fixedVars>>

\* a call _cosine_similarity(a, b)
CosineSimilarityCall ==
    /\ service = "embed"
    /\ result = NoResult
    /\ \E a \in Vectors, b \in Vectors :
          result' = [op |-> "_cosine_similarity", a |-> a, b |-> b,
                     value |-> CosineSimilarity(a, b)]
    /\ UNCHANGED <<documents, deleted>>
    /\ UNCHANGED <<service, settings, appVars, streamVars, splitVars, chainVars, fixedVars>>

EmbedNext ==
    \/ SimpleEmbeddingCall
    \/ GetEmbeddingCall
    \/ CosineSimilarityCall
    \/ Return

EmbedSpec == EmbedInit /\ [][EmbedNext]_vars

(***************************************************************************)
(* C13: _get_embedding never raises; it returns the remote vector          *)
(* unchanged on a 200 response that has an 'embedding' field, and          *)
(* _simple_embedding(text) on an exception, a non-200 response and a 200   *)
(* response without the field.                                             *)
(***************************************************************************)
C13_GetEmbeddingFallsBack ==
    result.op = "_get_embedding" =>
        /\ ~result.out.raised
        /\ result.out.value = IF result.outcome = "ok"
                                 THEN result.remote
                                 ELSE SimpleEmbedding(result.text)

\* a 200 response without the field has been answered from the fallback
C13_Witness ==
    /\ result.op = "_get_embedding"
    /\ result.outcome = "no_field"
    /\ result.text # << >>
    /\ Len(result.out.value) = EmbeddingDim

C15_CosineZero ==
    (/\ result.op = "_cosine_similarity"
     /\ \/ Len(result.a) # Len(result.b)
        \/ \A i \in DOMAIN result.a : result.a[i] = 0
        \/ \A i \in DOMAIN result.b : result.b[i] = 0)
        => result.value = ZeroSimilarity

\* two vectors of different lengths, neither of norm zero, that agree on
\* their common prefix
C15_Witness ==
    /\ result.op = "_cosine_similarity"
    /\ Len(result.a) = 1
    /\ Len(result.b) = 2
    /\ result.a[1] = 1
    /\ result.b[1] = 1

(***************************************************************************)
(* What the LangChain services keep in Chroma.  The collection is the      *)
(* library's: add_texts/add_documents append one entry per chunk, and      *)
(* nothing in either service removes an entry.                             *)
(***************************************************************************)
\* the text of the i-th chunk the splitter cuts a PDF into
PdfChunk(i) == <<"p", "d", "f", IF i = 1 THEN "1" ELSE "2">>

\* the entries for the n chunks of one document, with the metadata both
\* services attach
ChunkEntries(file_path, document_id, n) ==
    [i \in 1..n |-> [page_content |-> PdfChunk(i),
                     metadata |-> [document_id |-> document_id,
                                   chunk_index |-> i - 1,
                                   source |-> file_path]]]

\* doc.page_content[:200] + "..." with doc.metadata
ChainSource(doc) ==
    [content |-> SourceContent(doc.page_content), metadata |-> doc.metadata]

\* the index sets the retriever may answer with: settings.retrieval_k
\* entries of the collection, or all of it when it holds fewer
Retrievals(db, k) ==
    {idx \in SUBSET (DOMAIN db) : Cardinality(idx) = Min(k, Len(db))}

\* the entries at idx, in collection order
RECURSIVE Pick(_, _, _)
Pick(db, idx, from) ==
    IF from > Len(db) THEN << >>
    ELSE (IF from \in idx THEN <<db[from]>> ELSE << >>) \o Pick(db, idx, from + 1)

(***************************************************************************)
(* FixedRAGService of rag_service.py, the instance the routers import.     *)
(***************************************************************************)
\* _ensure_ready() does not raise (embeddings and llm are set whenever
\* __init__ ended without initialization_error)
EnsureReady == ~initialization_error /\ vectorstore /\ rag_chain

\* __init__: the health check fails (initialization_error, nothing built),
\* or the objects are built, where _initialize_vectorstore and
\* _setup_rag_chain each swallow their own failure
ChromaInit ==
    /\ service = "chroma"
    /\ settings \in SettingsValues
    /\ initialization_error \in BOOLEAN
    /\ vectorstore \in (IF initialization_error THEN {FALSE} ELSE BOOLEAN)
    /\ rag_chain \in (IF initialization_error THEN {FALSE} ELSE BOOLEAN)
    /\ chroma_db = << >>
    /\ LANGCHAIN_AVAILABLE = TRUE
    /\ storage = NoStorage
    /\ SimpleFresh
    /\ SplitIdle
    /\ StreamIdle
    /\ AppIdle

\* process_document(file_path, document_id); every exception is re-raised
ChromaProcessDocument ==
    /\ service = "chroma"
    /\ result = NoResult
    /\ \E file_path \in FilePaths, document_id \in DocIds :
          IF ~EnsureReady \/ ~Readable(file_path)
          THEN /\ result' = [op |-> "process", document_id |-> document_id,
                             raised |-> TRUE]
               /\ UNCHANGED <<chroma_db, vectorstore, rag_chain, deleted>>
          ELSE \/ \* add_texts raises (the embedding call fails)
                  /\ result' = [op |-> "process", document_id |-> document_id,
                                raised |-> TRUE]
                  /\ UNCHANGED <<chroma_db, vectorstore, rag_chain, deleted>>
               \/ \E n \in 1..MaxPdfChunks :
                     /\ Len(chroma_db) + n <= MaxStore
                     /\ chroma_db' = chroma_db \o ChunkEntries(file_path, document_id, n)
                     \* _initialize_vectorstore(), _setup_rag_chain()
                     /\ vectorstore' \in BOOLEAN
                     /\ rag_chain' \in BOOLEAN
                     /\ result' = [op |-> "process", document_id |-> document_id,
                                   raised |-> FALSE, success |-> TRUE, chunks |-> n]
                     /\ deleted' = deleted \ {document_id}
    /\ UNCHANGED <<service, settings, appVars, streamVars, splitVars, documents>>
    /\ UNCHANGED <<initialization_error, fixedVars>>

\* query_documents(question, document_ids): document_ids is not read
ChromaQueryDocuments ==
    /\ service = "chroma"
    /\ result = NoResult
    /\ \E document_ids \in Scopes :
          IF ~EnsureReady
          THEN result' = [op |-> "query", document_ids |-> document_ids,
                          raised |-> TRUE]
          ELSE \/ \* rag_chain.invoke raises
                  result' = [op |-> "query", document_ids |-> document_ids,
                             raised |-> TRUE]
               \/ \E idx \in Retrievals(chroma_db, settings.retrieval_k) :
                     LET context == Pick(chroma_db, idx, 1)
                     IN  result' = [op |-> "query", document_ids |-> document_ids,
                                    raised |-> FALSE, success |-> TRUE,
                                    response |-> "<the model's answer>",
                                    sources |-> [i \in DOMAIN context |->
                                                   ChainSource(context[i])]]
    /\ UNCHANGED <<service, settings, appVars, streamVars, splitVars, documents, deleted>>
    /\ UNCHANGED <<chainVars, fixedVars>>

\* delete_document(document_id): "not implemented here"
ChromaDeleteDocument ==
    /\ service = "chroma"
    /\ result = NoResult
    /\ \E document_id \in DocIds :
          /\ result' = [op |-> "delete", document_id |-> document_id,
                        success |-> EnsureReady,
                        again |-> document_id \in deleted]
          /\ deleted' = IF EnsureReady THEN deleted \cup {document_id} ELSE deleted
    /\ UNCHANGED <<service, settings, appVars, streamVars, splitVars, documents>>
    /\ UNCHANGED <<chainVars, fixedVars>>

\* get_document_count(): "return 0"
ChromaGetDocumentCount ==
    /\ service = "chroma"
    /\ result = NoResult
    /\ result' = [op |-> "count", count |-> 0]
    /\ UNCHANGED <<service, settings, appVars, streamVars, splitVars, documents, deleted>>
    /\ UNCHANGED <<chainVars, fixedVars>>

ChromaNext ==
    \/ ChromaProcessDocument
    \/ ChromaQueryDocuments
    \/ ChromaDeleteDocument
    \/ ChromaGetDocumentCount
    \/ Return

ChromaSpec == ChromaInit /\ [][ChromaNext]_vars

(***************************************************************************)
(* FixedRAGService of fixed_rag_service.py: LangChain when it can, else    *)
(* the fallback list self.documents, saved to ./rag_documents_db.json.     *)
(***************************************************************************)
\* the text extracted from a readable PDF: real text, or only blanks
PdfText == <<"p", "d", "f">>
BlankText == <<" ">>

\* _save_documents_to_storage(): the file afterwards; a failed write is
\* swallowed and leaves the file as it was
Saved(docs, old, write_ok) ==
    IF write_ok THEN [exists |-> TRUE, docs |-> docs] ELSE old

\* __init__ on a machine with no storage file yet
FixedInit ==
    /\ service = "fixed"
    /\ settings \in SettingsValues
    /\ LANGCHAIN_AVAILABLE \in BOOLEAN
    /\ vectorstore \in (IF LANGCHAIN_AVAILABLE THEN BOOLEAN ELSE {FALSE})
    /\ rag_chain \in (IF LANGCHAIN_AVAILABLE THEN BOOLEAN ELSE {FALSE})
    /\ initialization_error = FALSE
    /\ chroma_db = << >>
    /\ storage = NoStorage
    /\ SimpleFresh
    /\ SplitIdle
    /\ StreamIdle
    /\ AppIdle

\* the process restarts: __init__ runs again over the files left behind
FixedRestart ==
    /\ service = "fixed"
    /\ result = NoResult
    /\ \E load_ok \in BOOLEAN, init_ok \in BOOLEAN :
          LET loaded == IF storage.exists /\ load_ok THEN storage.docs ELSE << >>
          IN  /\ IF LANGCHAIN_AVAILABLE /\ init_ok
                 THEN /\ documents' = loaded
                      /\ vectorstore' \in BOOLEAN
                      /\ rag_chain' \in BOOLEAN
                 ELSE \* _setup_fallback(): self.documents = []
                      /\ documents' = << >>
                      /\ vectorstore' = FALSE
                      /\ rag_chain' = FALSE
              \* history: whether the storage file could be read, and
              \* whether __init__ ended in _setup_fallback()
              /\ result' = [op |-> "init",
                            load_ok |-> load_ok \/ ~storage.exists,
                            fallback |-> ~(LANGCHAIN_AVAILABLE /\ init_ok)]
    /\ UNCHANGED <<service, settings, appVars, streamVars, splitVars, deleted>>
    /\ UNCHANGED <<initialization_error, chroma_db, fixedVars>>

\* the extraction step's outcome: (extraction_successful, text); a file that
\* cannot be opened fails in both libraries
Extraction(file_path, extracted) ==
    IF ~Readable(file_path) \/ extracted = "fail"
    THEN [extraction_successful |-> FALSE, text |-> << >>]
    ELSE [extraction_successful |-> TRUE,
          text |-> IF extracted = "blank" THEN BlankText ELSE PdfText]

\* a check that looks at the flag only and lets blank text through
ExtractionRejectedOnFailure(extraction_successful, txt) ==
    ~extraction_successful

\* if not extraction_successful or not text.strip()
ExtractionRejected(extraction_successful, txt) ==
    ~extraction_successful \/ Strip(txt) = << >>

\* _fallback_process_document(file_path, document_id), reached with no
\* entry for document_id in self.documents
FallbackProcessDocument(file_path, document_id) ==
    \E extracted \in {"text", "blank", "fail"}, write_ok \in BOOLEAN :
        LET ex == Extraction(file_path, extracted)
        IN  IF ExtractionRejected(ex.extraction_successful, ex.text)
            THEN /\ result' = [op |-> "process", document_id |-> document_id,
                               via |-> "fallback", extraction |-> ex,
                               success |-> FALSE,
                               error |-> "<Failed to extract text>"]
                 /\ UNCHANGED <<documents, storage, deleted>>
            ELSE /\ Len(documents) < MaxDocs
                 /\ documents' = Append(documents, [id |-> document_id,
                                                     file_path |-> file_path,
                                                     content |-> ex.text])
                 /\ storage' = Saved(documents', storage, write_ok)
                 /\ result' = [op |-> "process", document_id |-> document_id,
                               via |-> "fallback", extraction |-> ex,
                               success |-> TRUE, chunks |-> 1, text |-> ex.text]
                 /\ deleted' = deleted \ {document_id}

\* process_document(file_path, document_id)
FixedProcessDocument ==
    /\ service = "fixed"
    /\ result = NoResult
    /\ \E file_path \in FilePaths, document_id \in DocIds :
          LET existing == {i \in DOMAIN documents : documents[i].id = document_id}
          IN  IF existing # {}
              THEN \* "already processed, returning existing data"
                   /\ result' = [op |-> "process", document_id |-> document_id,
                                 via |-> "existing",
                                 success |-> TRUE, chunks |-> 1,
                                 text |-> documents[CHOOSE i \in existing :
                                             \A j \in existing : i <= j].content]
                   /\ UNCHANGED <<documents, storage, deleted, chroma_db,
                                  vectorstore, rag_chain>>
              ELSE IF ~LANGCHAIN_AVAILABLE \/ ~vectorstore
              THEN /\ FallbackProcessDocument(file_path, document_id)
                   /\ UNCHANGED <<chroma_db, vectorstore, rag_chain>>
              ELSE \/ \* the loader or add_documents raises: except Exception
                      /\ FallbackProcessDocument(file_path, document_id)
                      /\ UNCHANGED <<chroma_db, vectorstore, rag_chain>>
                   \/ /\ Readable(file_path)
                      /\ \E n \in 1..MaxPdfChunks :
                            /\ Len(chroma_db) + n <= MaxStore
                            /\ chroma_db' = chroma_db \o
                                   ChunkEntries(file_path, document_id, n)
                            /\ result' = [op |-> "process",
                                          document_id |-> document_id,
                                          via |-> "langchain",
                                          success |-> TRUE, chunks |-> n]
                      \* _initialize_vectorstore(), _setup_rag_chain()
                      /\ vectorstore' \in BOOLEAN
                      /\ rag_chain' \in BOOLEAN
                      /\ deleted' = deleted \ {document_id}
                      /\ UNCHANGED <<documents, storage>>
    /\ UNCHANGED <<service, settings, appVars, streamVars, splitVars>>
    /\ UNCHANGED <<initialization_error, LANGCHAIN_AVAILABLE>>

\* self.documents = [doc for doc in self.documents if doc["id"] != document_id]
FixedDeleteOutcome(docs, document_id) ==
    LET Keep(doc) == doc.id # document_id
    IN  [documents |-> SelectSeq(docs, Keep), success |-> TRUE]

\* delete_document(document_id): nothing is removed from Chroma
FixedDeleteDocument ==
    /\ service = "fixed"
    /\ result = NoResult
    /\ \E document_id \in DocIds \cup {UnknownId}, write_ok \in BOOLEAN :
          LET out == FixedDeleteOutcome(documents, document_id)
          IN  /\ documents' = out.documents
              /\ storage' = Saved(out.documents, storage, write_ok)
              /\ result' = [op |-> "delete", document_id |-> document_id,
                            success |-> out.success,
                            again |-> document_id \in deleted]
              /\ deleted' = IF out.success THEN deleted \cup {document_id}
                                           ELSE deleted
    /\ UNCHANGED <<service, settings, appVars, streamVars, splitVars>>
    /\ UNCHANGED <<chainVars, LANGCHAIN_AVAILABLE>>

\* get_document_count()
FixedGetDocumentCount ==
    /\ service = "fixed"
    /\ result = NoResult
    /\ result' = [op |-> "count", count |-> GetDocumentCount(documents)]
    /\ UNCHANGED <<service, settings, appVars, streamVars, splitVars, documents, deleted>>
    /\ UNCHANGED <<chainVars, fixedVars>>

FixedNext ==
    \/ FixedRestart
    \/ FixedProcessDocument
    \/ FixedDeleteDocument
    \/ FixedGetDocumentCount
    \/ Return

FixedSpec == FixedInit /\ [][FixedNext]_vars

(***************************************************************************)
(* Streaming: send_message_stream of api/chat.py over                      *)
(* query_documents_stream of rag_service.py and fixed_rag_service.py.      *)
(* One request is followed, over what has been ingested before it.  The    *)
(* consumer pulls one event at a time and may go away while                *)
(* generate_response is suspended at a yield.                              *)
(***************************************************************************)
\* the text fragments a generation stream may carry
Fragments == {"A", "B"}

\* the lines of the /api/generate stream: a JSON object with a 'response'
\* field, an empty line, a line that is not JSON, a JSON object without
\* the field
FallbackLines ==
    [key : {"response"}, value : Fragments]
        \cup {[key |-> "blank", value |-> ""],
              [key |-> "bad_json", value |-> ""],
              [key |-> "done", value |-> ""]}

\* the 'answer' chunks of rag_chain.astream
AnswerChunks == [key : {"answer"}, value : Fragments]

\* every sequence over S of at most n elements
SeqsUpTo(S, n) == UNION {[1..k -> S] : k \in 0..n}

\* request.document_ids or []
IdsOrEmpty(document_ids) ==
    IF Truthy(document_ids) THEN document_ids.ids ELSE << >>

\* the events of the wire protocol
ContentEvent(chunk) == [content |-> chunk]
DoneEvent(sources, document_ids) ==
    [sources |-> sources, document_ids |-> IdsOrEmpty(document_ids), done |-> TRUE]
ErrorEvent == [error |-> "<message>"]

\* a handler that puts the new event in front of the earlier ones
EmitFirst(events, event) == <<event>> \o events

\* an emitter that sends every event twice
EmitTwice(events, event) == events \o <<event, event>>

\* yield f"data: {json.dumps(event)}\n\n"
Emit(events, event) == Append(events, event)

\* [{"content": doc["content"][:200] + "...", "metadata": {"id": doc["id"]}}
\*  for doc in self.documents]
FallbackSources(docs) ==
    [i \in DOMAIN docs |-> [content |-> SourceContent(docs[i].content),
                            metadata |-> [id |-> docs[i].id]]]

\* the ids of the documents whose content goes into the prompt context
RECURSIVE FallbackContext(_, _)
FallbackContext(docs, document_ids) ==
    IF docs = << >> THEN << >>
    ELSE (IF Truthy(document_ids) /\ Head(docs).id \notin Range(document_ids.ids)
          THEN << >> ELSE <<Head(docs).id>>)
         \o FallbackContext(Tail(docs), document_ids)

\* stream_generator of the LangChain path, resumed: it runs to its next
\* yield or to its end.  [stream, fragment]: the generator afterwards and
\* the fragment yielded, if any
RECURSIVE ChainAdvance(_)
ChainAdvance(st) ==
    IF st.upstream = << >>
    THEN [stream |-> [st EXCEPT !.state = "exhausted"], fragment |-> << >>]
    ELSE LET chunk == Head(st.upstream)
             rest == [st EXCEPT !.upstream = Tail(@)]
         IN  IF chunk.key = "answer"
             THEN [stream |-> [rest EXCEPT !.yielded = Append(@, chunk.value)],
                   fragment |-> <<chunk.value>>]
             ELSE IF chunk.key = "context" /\ rest.sources = << >>
             THEN \* sources.append(...) on the list the caller holds
                  ChainAdvance([rest EXCEPT !.sources =
                                   [i \in DOMAIN chunk.value |->
                                       ChainSource(chunk.value[i])]])
             ELSE ChainAdvance(rest)

\* stream_generator of _fallback_query_stream, resumed; the response is
\* released when iter_lines() has delivered its last line
RECURSIVE FallbackAdvance(_)
FallbackAdvance(st) ==
    IF st.upstream = << >>
    THEN [stream |-> [st EXCEPT !.state = "exhausted", !.response_open = FALSE],
          fragment |-> << >>]
    ELSE LET line == Head(st.upstream)
             rest == [st EXCEPT !.upstream = Tail(@)]
         IN  IF line.key = "response"
             THEN [stream |-> [rest EXCEPT !.yielded = Append(@, line.value)],
                   fragment |-> <<line.value>>]
             ELSE FallbackAdvance(rest)

Advance(st) ==
    IF st.kind = "chain" THEN ChainAdvance(st) ELSE FallbackAdvance(st)

\* the service call failed: raised (rag_service.py) or success False
StreamFailed(document_ids, response_left_open) ==
    /\ generate_response' = [pc |-> "finished", document_ids |-> document_ids,
                             success |-> FALSE,
                             events |-> Emit(<< >>, ErrorEvent)]
    /\ stream_generator' = [NoStream EXCEPT !.response_open = response_left_open]

\* query_documents_stream, the LangChain path of both services: the chain's
\* stream is created, nothing of it has run; sources = []
ChainStream(document_ids) ==
    \E idx \in Retrievals(chroma_db, settings.retrieval_k),
       answers \in SeqsUpTo(AnswerChunks, MaxLines) :
        /\ generate_response' = [pc |-> "streaming", document_ids |-> document_ids,
                                 success |-> TRUE, events |-> << >>]
        /\ stream_generator' =
              [kind |-> "chain", state |-> "suspended",
               upstream |-> <<[key |-> "input", value |-> "<question>"],
                              [key |-> "context", value |-> Pick(chroma_db, idx, 1)]>>
                            \o answers,
               yielded |-> << >>, sources |-> << >>, sources_at_return |-> << >>,
               context |-> << >>, response_open |-> FALSE]

\* _fallback_query_stream(question, document_ids)
FallbackStream(document_ids) ==
    \/ \* requests.post raises: except Exception
       StreamFailed(document_ids, FALSE)
    \/ \* status_code != 200; the response is not closed
       StreamFailed(document_ids, TRUE)
    \/ \E lines \in SeqsUpTo(FallbackLines, MaxLines) :
          /\ generate_response' = [pc |-> "streaming", document_ids |-> document_ids,
                                   success |-> TRUE, events |-> << >>]
          /\ stream_generator' =
                [kind |-> "fallback", state |-> "suspended", upstream |-> lines,
                 yielded |-> << >>,
                 sources |-> FallbackSources(documents),
                 sources_at_return |-> FallbackSources(documents),
                 context |-> FallbackContext(documents, document_ids),
                 response_open |-> TRUE]

\* generate_response is started: result = await query_documents_stream(...)
StreamStart ==
    /\ service \in {"chroma", "fixed"}
    /\ result = NoResult
    /\ generate_response.pc = "idle"
    /\ \E document_ids \in Scopes :
          IF service = "chroma"
          THEN IF EnsureReady
               THEN ChainStream(document_ids)
               ELSE \* _ensure_ready() raises; chat.py: except Exception
                    StreamFailed(document_ids, FALSE)
          ELSE IF ~LANGCHAIN_AVAILABLE \/ ~rag_chain
               THEN FallbackStream(document_ids)
               ELSE \/ ChainStream(document_ids)
                    \/ \* astream raises: except Exception
                       FallbackStream(document_ids)
    /\ UNCHANGED <<service, settings, appVars, splitVars, simpleVars, chainVars,
                   fixedVars>>

\* async for chunk in result["stream"]: the next chunk is asked for
StreamPull ==
    /\ result = NoResult
    /\ generate_response.pc = "streaming"
    /\ stream_generator.state = "suspended"
    /\ \/ \* the upstream raises (connection lost, timeout); the exception
          \* ends stream_generator and reaches chat.py's except Exception
          /\ stream_generator' = [stream_generator EXCEPT !.state = "raised",
                                                          !.response_open = FALSE]
          /\ generate_response' =
                [generate_response EXCEPT !.pc = "finished",
                                          !.events = Emit(@, ErrorEvent)]
       \/ LET adv == Advance(stream_generator)
          IN  /\ stream_generator' = adv.stream
              /\ generate_response' =
                    IF adv.fragment # << >>
                    THEN [generate_response EXCEPT
                             !.events = Emit(@, ContentEvent(adv.fragment[1]))]
                    ELSE \* the loop ends: sources and metadata
                         [generate_response EXCEPT
                             !.pc = "finished",
                             !.events = Emit(@, DoneEvent(adv.stream.sources,
                                                  generate_response.document_ids))]
    /\ UNCHANGED <<service, settings, appVars, splitVars, simpleVars, chainVars,
                   fixedVars>>

\* the consumer goes away while generate_response is suspended at
\* yield {'content': chunk}: GeneratorExit, which no handler catches and
\* nothing passes on to result["stream"]
Disconnect ==
    /\ result = NoResult
    /\ generate_response.pc = "streaming"
    /\ generate_response.events # << >>
    /\ generate_response' = [generate_response EXCEPT !.pc = "closed"]
    /\ UNCHANGED stream_generator
    /\ UNCHANGED <<service, settings, appVars, splitVars, simpleVars, chainVars,
                   fixedVars>>

\* the abandoned stream_generator is closed when the runtime finalizes it;
\* it has no try/finally and never calls response.close(): the response
\* is released with it or later, as garbage collection decides
Finalize ==
    /\ result = NoResult
    /\ generate_response.pc = "closed"
    /\ stream_generator.state = "suspended"
    /\ \E collected \in BOOLEAN :
          stream_generator' =
              [stream_generator EXCEPT
                  !.state = "closed",
                  !.response_open = IF collected THEN FALSE ELSE @]
    /\ UNCHANGED generate_response
    /\ UNCHANGED <<service, settings, appVars, splitVars, simpleVars, chainVars,
                   fixedVars>>

\* garbage collection reaches a response nothing refers to any more
Collect ==
    /\ result = NoResult
    /\ stream_generator.response_open
    /\ stream_generator.state \in {"closed", "none"}
    /\ stream_generator' = [stream_generator EXCEPT !.response_open = FALSE]
    /\ UNCHANGED generate_response
    /\ UNCHANGED <<service, settings, appVars, splitVars, simpleVars, chainVars,
                   fixedVars>>

\* documents are ingested before the request is made
StreamIngest ==
    /\ generate_response.pc = "idle"
    /\ ChromaProcessDocument \/ FixedProcessDocument
    /\ Len(chroma_db') <= MaxStreamStore

StreamInit ==
    /\ ChromaInit \/ FixedInit
    /\ settings = DefaultSettings

StreamNext ==
    \/ StreamIngest
    \/ Return
    \/ StreamStart
    \/ StreamPull
    \/ Disconnect
    \/ Finalize
    \/ Collect

StreamSpec == StreamInit /\ [][StreamNext]_vars

(***************************************************************************)
(* api/documents.py: upload_document and delete_document over the          *)
(* rag_service of rag_service.py, with the registry documents_db.  The     *)
(* handlers run on one event loop.  upload_document can be suspended at    *)
(* `await file.read()` only: the coroutines of rag_service.py contain no   *)
(* await, so what follows the read runs as one step, and so does           *)
(* delete_document.  documents_db is a dict: the model keeps its entries   *)
(* in insertion order.                                                     *)
(***************************************************************************)
\* settings.max_file_size
max_file_size == 10 * 1024 * 1024

\* the values uuid.uuid4() returns
Uuids == 1..MaxUuids

\* file.filename of a request: a PDF's name, a name that is not a PDF's,
\* and no name
PdfName == <<"a", ".", "p", "d", "f">>
UploadNames == {PdfName, <<"a", ".", "t", "x", "t">>, << >>}

\* len(content) of a request
FileSizes == {1, 2, max_file_size + 1}

\* s.endswith(suffix)
EndsWith(s, suffix) ==
    /\ Len(s) >= Len(suffix)
    /\ SubSeq(s, Len(s) - Len(suffix) + 1, Len(s)) = suffix

\* not file.filename or not file.filename.endswith('.pdf')
InvalidFileType(filename) ==
    filename = << >> \/ ~EndsWith(filename, <<".", "p", "d", "f">>)

\* os.path.join(upload_dir, f"{document_id}.pdf")
UploadPath(document_id) == <<"uploads", document_id>>

\* a check that never finds an entry
NoDuplicates(db, filename, size) == {}

\* the entries the duplicate check matches: same filename and same size
Duplicates(db, filename, size) ==
    {i \in DOMAIN db : db[i].filename = filename /\ db[i].size = size}

\* document_id in documents_db
InDb(db, document_id) == \E i \in DOMAIN db : db[i].id = document_id

\* del documents_db[document_id]
DelEntry(db, document_id) ==
    LET Keep(entry) == entry.id # document_id
    IN  SelectSeq(db, Keep)

\* save_documents_db(documents_db): the file afterwards; a failed write is
\* logged and leaves the file as it was
SavedDb(db, old, write_ok) ==
    IF write_ok THEN [exists |-> TRUE, data |-> db] ELSE old

\* load_documents_db() at import, after the os.path.isfile test
LoadedDb(file, load_ok) ==
    IF file.exists /\ load_ok THEN file.data ELSE << >>

\* the ids that have index entries in the Chroma collection
IndexedIds(db) == {db[i].metadata.document_id : i \in DOMAIN db}

\* the values uuid4 has not returned yet: those that are nowhere in use
UnusedIds ==
    Uuids \ (IndexedIds(chroma_db) \cup upload_directory
             \cup {documents_db[i].id : i \in DOMAIN documents_db}
             \cup {DOCUMENTS_DB_FILE.data[i].id : i \in DOMAIN DOCUMENTS_DB_FILE.data})

\* str(uuid.uuid4()): a value never returned before (the model takes the
\* smallest; the ids are interchangeable)
NextUuid ==
    IF UnusedIds = {} THEN {}
    ELSE {CHOOSE id \in UnusedIds : \A other \in UnusedIds : id <= other}

\* the module is imported: FixedRAGService() is built and documents_db loaded
ApiInit ==
    /\ service = "api"
    /\ settings = DefaultSettings
    /\ initialization_error \in BOOLEAN
    /\ vectorstore \in (IF initialization_error THEN {FALSE} ELSE BOOLEAN)
    /\ rag_chain \in (IF initialization_error THEN {FALSE} ELSE BOOLEAN)
    /\ chroma_db = << >>
    /\ LANGCHAIN_AVAILABLE = TRUE
    /\ storage = NoStorage
    /\ SimpleFresh
    /\ SplitIdle
    /\ StreamIdle
    /\ AppIdle

\* upload_document(file) up to `content = await file.read()`
UploadDocumentRead ==
    /\ service = "api"
    /\ \E c \in Clients, filename \in UploadNames, size \in FileSizes :
          /\ upload_document[c] = NoFrame
          /\ IF InvalidFileType(filename)
             THEN /\ result = NoResult
                  /\ result' = [op |-> "upload", client |-> c, status |-> 400,
                                detail |-> "Only PDF files are allowed"]
                  /\ UNCHANGED upload_document
             ELSE /\ upload_document' =
                         [upload_document EXCEPT
                             ![c] = [pc |-> "read", filename |-> filename,
                                     size |-> size]]
                  /\ UNCHANGED result
    /\ UNCHANGED <<documents_db, DOCUMENTS_DB_FILE, upload_directory, tasks>>
    /\ UNCHANGED <<service, settings, splitVars, documents, deleted, chainVars,
                   fixedVars, streamVars>>

\* upload_document(file) from the return of file.read() to the response
UploadDocumentRest ==
    /\ service = "api"
    /\ result = NoResult
    /\ \E c \in Clients :
          /\ upload_document[c].pc = "read"
          /\ upload_document' = [upload_document EXCEPT ![c] = NoFrame]
          /\ LET filename == upload_document[c].filename
                 file_size == upload_document[c].size
                 existing == Duplicates(documents_db, filename, file_size)
             IN  IF file_size > max_file_size
                 THEN /\ result' = [op |-> "upload", client |-> c, status |-> 400,
                                    detail |-> "File too large"]
                      /\ UNCHANGED <<documents_db, DOCUMENTS_DB_FILE,
                                     upload_directory, chroma_db, vectorstore,
                                     rag_chain>>
                 ELSE IF existing # {}
                 THEN \* the first matching entry of the dict
                      LET first == CHOOSE i \in existing :
                                       \A j \in existing : i <= j
                      IN  /\ result' = [op |-> "upload", client |-> c,
                                        status |-> 200, success |-> TRUE,
                                        document_id |-> documents_db[first].id,
                                        filename |-> filename,
                                        size |-> file_size,
                                        chunks |-> documents_db[first].chunks,
                                        message |-> "Document already exists"]
                          /\ UNCHANGED <<documents_db, DOCUMENTS_DB_FILE,
                                         upload_directory, chroma_db,
                                         vectorstore, rag_chain>>
                 ELSE \E document_id \in NextUuid :
                      \/ \* open(file_path, "wb") raises: no file
                         /\ result' = [op |-> "upload", client |-> c,
                                       status |-> 500,
                                       detail |-> "Failed to save file"]
                         /\ UNCHANGED <<documents_db, DOCUMENTS_DB_FILE,
                                        upload_directory, chroma_db,
                                        vectorstore, rag_chain>>
                      \/ \* buffer.write(content) raises: the HTTPException
                         \* passes the handlers that clean up
                         /\ result' = [op |-> "upload", client |-> c,
                                       status |-> 500,
                                       detail |-> "Failed to save file"]
                         /\ upload_directory' = upload_directory \cup {document_id}
                         /\ UNCHANGED <<documents_db, DOCUMENTS_DB_FILE,
                                        chroma_db, vectorstore, rag_chain>>
                      \/ \* the file is saved; process_document raises
                         \* (_ensure_ready, PdfReader or add_texts) and the
                         \* file is removed
                         /\ result' = [op |-> "upload", client |-> c,
                                       status |-> 500,
                                       detail |-> "RAG processing failed"]
                         /\ UNCHANGED <<documents_db, DOCUMENTS_DB_FILE,
                                        upload_directory, chroma_db,
                                        vectorstore, rag_chain>>
                      \/ \* the file is saved and process_document succeeds
                         /\ EnsureReady
                         /\ \E n \in 1..MaxPdfChunks, write_ok \in BOOLEAN :
                               /\ Len(chroma_db) + n <= MaxStore
                               /\ chroma_db' = chroma_db \o
                                      ChunkEntries(UploadPath(document_id),
                                                   document_id, n)
                               /\ documents_db' =
                                      Append(documents_db,
                                             [id |-> document_id,
                                              filename |-> filename,
                                              size |-> file_size,
                                              status |-> "processed",
                                              file_path |-> UploadPath(document_id),
                                              chunks |-> n])
                               /\ DOCUMENTS_DB_FILE' =
                                      SavedDb(documents_db', DOCUMENTS_DB_FILE,
                                              write_ok)
                               /\ result' = [op |-> "upload", client |-> c,
                                             status |-> 200, success |-> TRUE,
                                             document_id |-> document_id,
                                             filename |-> filename,
                                             size |-> file_size,
                                             chunks |-> n,
                                             message |-> "<none>"]
                         \* _initialize_vectorstore(), _setup_rag_chain()
                         /\ vectorstore' \in BOOLEAN
                         /\ rag_chain' \in BOOLEAN
                         /\ upload_directory' = upload_directory \cup {document_id}
    /\ UNCHANGED <<service, settings, splitVars, documents, deleted,
                   initialization_error, fixedVars, streamVars, tasks>>

\* delete_document(document_id) of the router
ApiDeleteDocument ==
    /\ service = "api"
    /\ result = NoResult
    /\ \E document_id \in Uuids, remove_ok \in BOOLEAN, write_ok \in BOOLEAN :
          IF ~InDb(documents_db, document_id)
          THEN /\ result' = [op |-> "api_delete", document_id |-> document_id,
                             status |-> 404, success |-> FALSE]
               /\ UNCHANGED <<documents_db, DOCUMENTS_DB_FILE, upload_directory>>
          ELSE \* await rag_service.delete_document(document_id): its result
               \* is not read and it removes nothing from the collection
               /\ upload_directory' = IF remove_ok
                                         THEN upload_directory \ {document_id}
                                         ELSE upload_directory
               /\ documents_db' = DelEntry(documents_db, document_id)
               /\ DOCUMENTS_DB_FILE' = SavedDb(documents_db', DOCUMENTS_DB_FILE,
                                               write_ok)
               /\ result' = [op |-> "api_delete", document_id |-> document_id,
                             status |-> 200, success |-> TRUE]
    /\ UNCHANGED <<upload_document, tasks>>
    /\ UNCHANGED <<service, settings, splitVars, documents, deleted, chainVars,
                   fixedVars, streamVars>>

\* the process restarts: the modules are imported again over the files and
\* the collection left behind
ApiRestart ==
    /\ service = "api"
    /\ result = NoResult
    /\ \E load_ok \in BOOLEAN :
          documents_db' = LoadedDb(DOCUMENTS_DB_FILE, load_ok)
    /\ upload_document' = [c \in Clients |-> NoFrame]
    /\ initialization_error' \in BOOLEAN
    /\ vectorstore' \in (IF initialization_error' THEN {FALSE} ELSE BOOLEAN)
    /\ rag_chain' \in (IF initialization_error' THEN {FALSE} ELSE BOOLEAN)
    /\ UNCHANGED <<DOCUMENTS_DB_FILE, upload_directory, tasks, chroma_db>>
    /\ UNCHANGED <<service, settings, splitVars, simpleVars, fixedVars,
                   streamVars>>

\* the client takes the response
ApiReturn ==
    /\ service = "api"
    /\ result # NoResult
    /\ result' = NoResult
    /\ UNCHANGED <<service, settings, splitVars, documents, deleted, chainVars,
                   fixedVars, streamVars, appVars>>

ApiNext ==
    \/ UploadDocumentRead
    \/ UploadDocumentRest
    \/ ApiDeleteDocument
    \/ ApiRestart
    \/ ApiReturn

ApiSpec == ApiInit /\ [][ApiNext]_vars

(***************************************************************************)
(* SimpleRAGService with its coroutines taken one await at a time: two     *)
(* tasks of one event loop, each running process_document,                 *)
(* query_documents, delete_document or get_document_count.  A coroutine    *)
(* may be suspended at each `await self._get_embedding(...)` and at        *)
(* `await self._generate_response(...)`; between two awaits it runs alone. *)
(***************************************************************************)
\* what the tasks' calls are given: the embeddings of chunks, the embedding
\* of the question, the scope
TaskEmbeddings == {<<1, 0>>, <<1, 1>>}
TaskQuestionEmbedding == <<1, 0>>

\* a doc_data that keeps the first embedding only
DocDataFirstEmbedding(document_id, file_path, cks, chunk_embeddings) ==
    [id |-> document_id, file_path |-> file_path, chunks |-> cks,
     embeddings |-> SubSeq(chunk_embeddings, 1, 1)]

\* doc_data of process_document
DocData(document_id, file_path, cks, chunk_embeddings) ==
    [id |-> document_id, file_path |-> file_path, chunks |-> cks,
     embeddings |-> chunk_embeddings]

\* a coroutine that has returned value
Returned(op, value) == [pc |-> "returned", op |-> op, value |-> value]

TaskInit ==
    /\ service = "tasks"
    /\ settings = SmallSettings
    /\ SimpleFresh
    /\ SplitIdle
    /\ StreamIdle
    /\ AppIdle
    /\ ChainIdle

\* process_document(file_path, document_id) from its entry to the first
\* await of the embedding loop (or to its return, when there is none)
TaskProcessStart ==
    /\ service = "tasks"
    /\ \E t \in TaskIds, file_path \in FilePaths, document_id \in DocIds :
          /\ tasks[t] = NoFrame
          /\ IF ~Readable(file_path)
             THEN /\ tasks' = [tasks EXCEPT
                                  ![t] = Returned("process", [success |-> FALSE])]
                  /\ UNCHANGED documents
             ELSE LET cks == SplitText(DocumentText(file_path),
                                       settings.chunk_size, settings.chunk_overlap)
                  IN  IF cks = << >>
                      THEN /\ Len(documents) < MaxDocs
                           /\ documents' = Append(documents,
                                               DocData(document_id, file_path,
                                                       cks, << >>))
                           /\ tasks' = [tasks EXCEPT
                                           ![t] = Returned("process",
                                                           [success |-> TRUE,
                                                            chunks |-> 0])]
                      ELSE /\ tasks' = [tasks EXCEPT
                                           ![t] = [pc |-> "embed", op |-> "process",
                                                   document_id |-> document_id,
                                                   file_path |-> file_path,
                                                   chunks |-> cks,
                                                   chunk_embeddings |-> << >>]]
                           /\ UNCHANGED documents
    /\ UNCHANGED <<result, deleted>>
    /\ UNCHANGED <<service, settings, splitVars, chainVars, fixedVars, streamVars,
                   documents_db, DOCUMENTS_DB_FILE, upload_directory,
                   upload_document>>

\* process_document resumed with the embedding of the chunk it waited for:
\* the next await of the loop, or self.documents.append(doc_data) and return
TaskProcessResume ==
    /\ service = "tasks"
    /\ \E t \in TaskIds, embedding \in TaskEmbeddings :
          /\ tasks[t].pc = "embed"
          /\ LET fr == tasks[t]
                 chunk_embeddings == Append(fr.chunk_embeddings, embedding)
             IN  IF Len(chunk_embeddings) < Len(fr.chunks)
                 THEN /\ tasks' = [tasks EXCEPT
                                      ![t].chunk_embeddings = chunk_embeddings]
                      /\ UNCHANGED documents
                 ELSE /\ Len(documents) < MaxDocs
                      /\ documents' = Append(documents,
                                             DocData(fr.document_id, fr.file_path,
                                                     fr.chunks, chunk_embeddings))
                      /\ tasks' = [tasks EXCEPT
                                      ![t] = Returned("process",
                                                      [success |-> TRUE,
                                                       chunks |-> Len(fr.chunks)])]
    /\ UNCHANGED <<result, deleted>>
    /\ UNCHANGED <<service, settings, splitVars, chainVars, fixedVars, streamVars,
                   documents_db, DOCUMENTS_DB_FILE, upload_directory,
                   upload_document>>

\* query_documents(question, document_ids) up to
\* `await self._get_embedding(question)`
TaskQueryStart ==
    /\ service = "tasks"
    /\ \E t \in TaskIds, document_ids \in {NoScope, [given |-> TRUE, ids |-> <<"d1">>]} :
          /\ tasks[t] = NoFrame
          /\ tasks' = [tasks EXCEPT
                          ![t] = [pc |-> "embed_question", op |-> "query",
                                  document_ids |-> document_ids]]
    /\ UNCHANGED <<documents, result, deleted>>
    /\ UNCHANGED <<service, settings, splitVars, chainVars, fixedVars, streamVars,
                   documents_db, DOCUMENTS_DB_FILE, upload_directory,
                   upload_document>>

\* query_documents resumed with the question's embedding: the loop over
\* self.documents, the sort and the context, up to
\* `await self._generate_response(question, context)`
TaskQueryRetrieve ==
    /\ service = "tasks"
    /\ \E t \in TaskIds :
          /\ tasks[t].pc = "embed_question"
          /\ LET similarities == Similarities(documents, 1, tasks[t].document_ids,
                                              TaskQuestionEmbedding)
                 top_results == TopResults(SortDescending(similarities),
                                           settings.retrieval_k)
             IN  tasks' = [tasks EXCEPT
                              ![t] = [pc |-> "generate", op |-> "query",
                                      document_ids |-> tasks[t].document_ids,
                                      similarities |-> similarities,
                                      top_results |-> top_results]]
    /\ UNCHANGED <<documents, result, deleted>>
    /\ UNCHANGED <<service, settings, splitVars, chainVars, fixedVars, streamVars,
                   documents_db, DOCUMENTS_DB_FILE, upload_directory,
                   upload_document>>

\* query_documents resumed with the generated response: return
TaskQueryReturn ==
    /\ service = "tasks"
    /\ \E t \in TaskIds, generation \in {"ok", "exception"} :
          /\ tasks[t].pc = "generate"
          /\ tasks' = [tasks EXCEPT
                          ![t] = Returned("query",
                                     [success |-> TRUE,
                                      response |-> GenerateResponse(generation),
                                      sources |-> [i \in DOMAIN tasks[t].top_results |->
                                          [content |-> SourceContent(
                                               tasks[t].top_results[i].content),
                                           similarity |->
                                               tasks[t].top_results[i].similarity]]])]
    /\ UNCHANGED <<documents, result, deleted>>
    /\ UNCHANGED <<service, settings, splitVars, chainVars, fixedVars, streamVars,
                   documents_db, DOCUMENTS_DB_FILE, upload_directory,
                   upload_document>>

\* delete_document(document_id): no await
TaskDelete ==
    /\ service = "tasks"
    /\ \E t \in TaskIds, document_id \in DocIds :
          /\ tasks[t] = NoFrame
          /\ LET out == DeleteOutcome(documents, document_id)
             IN  /\ documents' = out.documents
                 /\ tasks' = [tasks EXCEPT
                                 ![t] = Returned("delete",
                                                 [success |-> out.success])]
    /\ UNCHANGED <<result, deleted>>
    /\ UNCHANGED <<service, settings, splitVars, chainVars, fixedVars, streamVars,
                   documents_db, DOCUMENTS_DB_FILE, upload_directory,
                   upload_document>>

\* get_document_count(): no await
TaskCount ==
    /\ service = "tasks"
    /\ \E t \in TaskIds :
          /\ tasks[t] = NoFrame
          /\ tasks' = [tasks EXCEPT
                          ![t] = Returned("count", GetDocumentCount(documents))]
    /\ UNCHANGED <<documents, result, deleted>>
    /\ UNCHANGED <<service, settings, splitVars, chainVars, fixedVars, streamVars,
                   documents_db, DOCUMENTS_DB_FILE, upload_directory,
                   upload_document>>

\* the caller takes the value; the task is free for its next call
TaskDone ==
    /\ service = "tasks"
    /\ \E t \in TaskIds :
          /\ tasks[t].pc = "returned"
          /\ tasks' = [tasks EXCEPT ![t] = NoFrame]
    /\ UNCHANGED <<documents, result, deleted>>
    /\ UNCHANGED <<service, settings, splitVars, chainVars, fixedVars, streamVars,
                   documents_db, DOCUMENTS_DB_FILE, upload_directory,
                   upload_document>>

TaskNext ==
    \/ TaskProcessStart
    \/ TaskProcessResume
    \/ TaskQueryStart
    \/ TaskQueryRetrieve
    \/ TaskQueryReturn
    \/ TaskDelete
    \/ TaskCount
    \/ TaskDone

TaskSpec == TaskInit /\ [][TaskNext]_vars

(***************************************************************************)
(* The three services side by side: a run is of one of them.               *)
(***************************************************************************)
Init == SimpleInit \/ ChromaInit \/ FixedInit

Next ==
    \/ SimpleProcessDocument
    \/ SimpleQueryDocuments
    \/ SimpleDeleteDocument
    \/ SimpleGetDocumentCount
    \/ ChromaProcessDocument
    \/ ChromaQueryDocuments
    \/ ChromaDeleteDocument
    \/ ChromaGetDocumentCount
    \/ FixedRestart
    \/ FixedProcessDocument
    \/ FixedDeleteDocument
    \/ FixedGetDocumentCount
    \/ Return

Spec == Init /\ [][Next]_vars

(***************************************************************************)
(* C3: a query with a non-empty document_ids retrieves only chunks of      *)
(* stored documents whose id is in document_ids; with document_ids empty   *)
(* or None every stored chunk is a candidate: it is retrieved, or the      *)
(* retrieval is full (retrieval_k results) of chunks that score at least   *)
(* as high.                                                                *)
(***************************************************************************)
C3_QueryScoped ==
    result.op = "query" =>
        LET top == result.top_results
            scope == result.document_ids
        IN  /\ \A r \in Range(top) :
                  /\ r.entry \in DOMAIN documents
                  /\ documents[r.entry].id = r.doc_id
                  /\ r.chunk_index + 1 \in DOMAIN documents[r.entry].chunks
                  /\ documents[r.entry].chunks[r.chunk_index + 1] = r.content
                  /\ Truthy(scope) => r.doc_id \in Range(scope.ids)
            /\ ~Truthy(scope) =>
                  \A d \in DOMAIN documents : \A c \in DOMAIN documents[d].chunks :
                      \/ \E r \in Range(top) : r.entry = d /\ r.chunk_index = c - 1
                      \/ /\ Len(top) = settings.retrieval_k
                         /\ \A r \in Range(top) :
                               ~SimGreater(CosineSimilarity(result.question_embedding,
                                                            documents[d].embeddings[c]),
                                           r.similarity)

\* a query scoped to one id while a document of another id is stored, which
\* retrieved something
C3_Witness ==
    /\ result.op = "query"
    /\ Truthy(result.document_ids)
    /\ result.top_results # << >>
    /\ \E d \in DOMAIN documents : documents[d].id \notin Range(result.document_ids.ids)

(***************************************************************************)
(* C4: the retrieval results are in descending order of similarity, and    *)
(* results of equal similarity are in insertion order: by position of the  *)
(* document in self.documents, then by chunk index.                        *)
(***************************************************************************)
C4_SortedStable ==
    result.op = "query" =>
        LET top == result.top_results
        IN  \A i, j \in DOMAIN top :
                i < j =>
                    /\ ~SimGreater(top[j].similarity, top[i].similarity)
                    /\ SimEqual(top[i].similarity, top[j].similarity) =>
                          \/ top[i].entry < top[j].entry
                          \/ /\ top[i].entry = top[j].entry
                             /\ top[i].chunk_index < top[j].chunk_index

\* a result list with a strict drop in similarity and a tie between chunks
\* of two documents
C4_Witness ==
    /\ result.op = "query"
    /\ LET top == result.top_results
       IN  /\ \E i, j \in DOMAIN top :
                 i < j /\ SimGreater(top[i].similarity, top[j].similarity)
           /\ \E i, j \in DOMAIN top :
                 /\ i < j
                 /\ SimEqual(top[i].similarity, top[j].similarity)
                 /\ top[i].entry # top[j].entry

(***************************************************************************)
(* C5: the number of sources a query returns is min(retrieval_k, number    *)
(* of stored chunks in the query's scope).                                 *)
(***************************************************************************)
RECURSIVE ChunksInScope(_, _)
ChunksInScope(docs, scope) ==
    IF docs = << >> THEN 0
    ELSE (IF ~Truthy(scope) \/ docs[1].id \in Range(scope.ids)
          THEN Len(docs[1].chunks) ELSE 0) + ChunksInScope(Tail(docs), scope)

C5_AtMostK ==
    result.op = "query" =>
        Len(result.sources) =
            Min(settings.retrieval_k, ChunksInScope(documents, result.document_ids))

\* a query with more candidates than retrieval_k
C5_Witness ==
    /\ result.op = "query"
    /\ ChunksInScope(documents, result.document_ids) > settings.retrieval_k
    /\ Len(result.sources) = settings.retrieval_k

(***************************************************************************)
(* C6: a query never returns a chunk of a document id that has been        *)
(* deleted and not ingested again since.                                   *)
(***************************************************************************)
C6_NoDeletedChunk ==
    result.op = "query" =>
        \A r \in Range(result.top_results) : r.doc_id \notin deleted

\* a query, with documents still stored, whose scope covers an id that was
\* deleted
C6_Witness ==
    /\ result.op = "query"
    /\ documents # << >>
    /\ \E id \in deleted :
          ~Truthy(result.document_ids) \/ id \in Range(result.document_ids.ids)

(***************************************************************************)
(* C7: in rag_service.py, once delete_document(document_id) has returned   *)
(* success, the vector store holds no entry tagged with that id and no     *)
(* query returns a chunk of it (until the id is ingested again).           *)
(***************************************************************************)
C7_DeleteRemovesEntries ==
    /\ \A doc \in Range(chroma_db) : doc.metadata.document_id \notin deleted
    /\ (result.op = "query" /\ ~result.raised) =>
          \A src \in Range(result.sources) : src.metadata.document_id \notin deleted

(***************************************************************************)
(* C8: in SimpleRAGService and in fixed_rag_service.py, delete_document    *)
(* for an id that has no entry returns success and leaves the stored       *)
(* documents and get_document_count() as they were.                        *)
(***************************************************************************)
C8_DeleteIdempotent ==
    [][(/\ service \in {"simple", "fixed"}
        /\ result = NoResult
        /\ result'.op = "delete"
        /\ \A i \in DOMAIN documents : documents[i].id # result'.document_id)
       => (/\ result'.success
           /\ documents' = documents
           /\ chroma_db' = chroma_db
           /\ GetDocumentCount(documents') = GetDocumentCount(documents))]_vars

\* fixed_rag_service.py has answered a second delete of an id in a row
\* (nothing ingested under it in between) while other documents are stored
C8_Witness ==
    /\ service = "fixed"
    /\ result.op = "delete"
    /\ result.again
    /\ result.success
    /\ documents # << >>

(***************************************************************************)
(* C11: when _fallback_process_document cannot extract text, or extracts   *)
(* only whitespace, it answers success False with an error and leaves      *)
(* self.documents and the storage file as they were: no entry for the      *)
(* document id is created.                                                 *)
(***************************************************************************)
C11_FailedExtractionStoresNothing ==
    [][(/\ result = NoResult
        /\ result'.op = "process"
        /\ result'.via = "fallback"
        /\ \/ ~result'.extraction.extraction_successful
           \/ \A i \in DOMAIN result'.extraction.text :
                 result'.extraction.text[i] \in Whitespace)
       => (/\ ~result'.success
           /\ "error" \in DOMAIN result'
           /\ documents' = documents
           /\ storage' = storage
           /\ \A i \in DOMAIN documents' :
                 documents'[i].id # result'.document_id)]_vars

\* the fallback has refused a PDF whose text is only whitespace, with
\* another document already stored
C11_Witness ==
    /\ service = "fixed"
    /\ result.op = "process"
    /\ result.via = "fallback"
    /\ result.extraction.extraction_successful
    /\ result.extraction.text = BlankText
    /\ ~result.success
    /\ documents # << >>

(***************************************************************************)
(* C12: in SimpleRAGService.query_documents, a request to the generation   *)
(* endpoint that fails (non-200 status, timeout, connection error) makes   *)
(* the query a failure: success False with an error, never success True    *)
(* with a substitute answer.                                               *)
(***************************************************************************)
C12_GenerationFailureSurfaces ==
    (result.op = "query" /\ result.generation \in {"non200", "exception"})
        => (~result.success /\ "error" \in DOMAIN result)

\* one content event per fragment, in the order given
ContentEvents(fragments) ==
    [i \in DOMAIN fragments |-> ContentEvent(fragments[i])]

(***************************************************************************)
(* C16 as stated: when the service result has success True, the events of  *)
(* a finished generate_response are one content event per fragment the     *)
(* stream has yielded, in order, followed by exactly one event with        *)
(* sources, document_ids and done; when it has success False, they are a   *)
(* single error event.                                                     *)
(***************************************************************************)
C16_StreamEvents ==
    generate_response.pc = "finished" =>
        generate_response.events =
            IF generate_response.success
            THEN ContentEvents(stream_generator.yielded)
                 \o <<DoneEvent(stream_generator.sources,
                                generate_response.document_ids)>>
            ELSE <<ErrorEvent>>

(***************************************************************************)
(* C16 amended: with success True, the content events are at every moment  *)
(* the fragments the stream has yielded so far, in order, none lost,       *)
(* doubled or moved; a stream that ends is followed by exactly one event   *)
(* with sources, document_ids and done, which ends the sequence; a stream  *)
(* that raises is followed by one error event instead, and no done event.  *)
(* With success False the sequence is a single error event.                *)
(***************************************************************************)
C16_StreamEventsUnlessRaised ==
    generate_response.pc # "idle" =>
        LET events == generate_response.events
            contents == ContentEvents(stream_generator.yielded)
        IN  IF generate_response.success
            THEN \/ /\ stream_generator.state \in {"suspended", "closed"}
                    /\ generate_response.pc \in {"streaming", "closed"}
                    /\ events = contents
                 \/ /\ stream_generator.state = "exhausted"
                    /\ generate_response.pc = "finished"
                    /\ events = contents
                                 \o <<DoneEvent(stream_generator.sources,
                                                generate_response.document_ids)>>
                 \/ /\ stream_generator.state = "raised"
                    /\ generate_response.pc = "finished"
                    /\ events = contents \o <<ErrorEvent>>
            ELSE /\ generate_response.pc = "finished"
                 /\ events = <<ErrorEvent>>

\* a stream of two different fragments has been delivered to its end
C16_Witness ==
    /\ generate_response.pc = "finished"
    /\ generate_response.success
    /\ stream_generator.state = "exhausted"
    /\ stream_generator.yielded = <<"A", "B">>
    /\ Len(generate_response.events) = 3

(***************************************************************************)
(* C17: the sources of a query_documents_stream result are complete when   *)
(* the call returns: the caller sees the same value whether none, some or  *)
(* all of the stream has been consumed.                                    *)
(***************************************************************************)
C17_SourcesCompleteAtReturn ==
    stream_generator.kind # "none" =>
        stream_generator.sources = stream_generator.sources_at_return

(***************************************************************************)
(* C18: the stream generator of _fallback_query_stream is never closed     *)
(* (after the consumer went away) with its HTTP response still open.       *)
(***************************************************************************)
C18_ClosedStreamReleasesResponse ==
    (stream_generator.kind = "fallback" /\ stream_generator.state = "closed")
        => ~stream_generator.response_open

(***************************************************************************)
(* C19: SimpleRAGService.query_documents with document_ids that match no   *)
(* stored document retrieves nothing (no sources, empty context), still    *)
(* sends its one request to the generation endpoint, and answers with a    *)
(* normal result.                                                          *)
(***************************************************************************)
C19_UnknownIdsRetrieveNothing ==
    (/\ result.op = "query"
     /\ Truthy(result.document_ids)
     /\ \A i \in DOMAIN documents :
           documents[i].id \notin Range(result.document_ids.ids))
        => (/\ result.success
            /\ result.top_results = << >>
            /\ result.sources = << >>
            /\ result.context = << >>
            /\ result.prompt_context = << << >> >>
            /\ "error" \notin DOMAIN result)

\* a query scoped to an id that was never ingested, with documents stored
C19_Witness ==
    /\ service = "simple"
    /\ result.op = "query"
    /\ Truthy(result.document_ids)
    /\ UnknownId \in Range(result.document_ids.ids)
    /\ documents # << >>
    /\ result.success

(***************************************************************************)
(* C20: in rag_service.py, a query with a non-empty document_ids returns   *)
(* sources of those documents only (none at all for unknown ids).          *)
(***************************************************************************)
C20_ChainQueryScoped ==
    (result.op = "query" /\ ~result.raised /\ Truthy(result.document_ids))
        => \A src \in Range(result.sources) :
              src.metadata.document_id \in Range(result.document_ids.ids)

(***************************************************************************)
(* C9: get_document_count() is the number of distinct document ids that    *)
(* have stored chunks.                                                     *)
(***************************************************************************)
C9_CountIsDistinctIds ==
    result.op = "count" =>
        result.count = Cardinality({documents[i].id : i \in DOMAIN documents})

(***************************************************************************)
(* C10: the index holds one set of chunks per document id, however often   *)
(* the id was ingested, and no query returns a chunk of a document twice.  *)
(***************************************************************************)
C10_OneEntryPerId ==
    /\ \A i, j \in DOMAIN documents :
          documents[i].id = documents[j].id => i = j
    /\ result.op = "query" =>
          \A i, j \in DOMAIN result.top_results :
              /\ result.top_results[i].doc_id = result.top_results[j].doc_id
              /\ result.top_results[i].chunk_index = result.top_results[j].chunk_index
              => i = j

(***************************************************************************)
(* C21: each source of a query result is the chunk text cut to its first   *)
(* 200 characters, with "..." appended only when the chunk text is longer  *)
(* than 200 characters; a chunk of at most 200 characters is returned      *)
(* unchanged.                                                              *)
(***************************************************************************)
C21_SourceTruncation ==
    (result.op = "query" /\ result.success) =>
        \A i \in DOMAIN result.sources :
            LET content == result.top_results[i].content
            IN  result.sources[i].content =
                    IF Len(content) > 200
                    THEN Slice(content, 0, 200) \o <<".", ".", ".">>
                    ELSE content

(***************************************************************************)
(* C22: whenever an upload or delete request of the router has answered,   *)
(* the registry and the index agree: an id has an entry in documents_db    *)
(* exactly when the Chroma collection holds entries for it.                *)
(***************************************************************************)
C22_RegistryMatchesIndex ==
    result.op \in {"upload", "api_delete"} =>
        \A id \in Uuids :
            InDb(documents_db, id) <=> id \in IndexedIds(chroma_db)

(***************************************************************************)
(* C30: documents_db never holds two entries with the same filename and    *)
(* size, however the upload requests interleave; an upload that resumes    *)
(* from file.read() with a filename and size that an entry has answers     *)
(* with that entry's document_id and leaves the registry, its file, the    *)
(* upload directory and the index as they were.                            *)
(***************************************************************************)
C30_NoDuplicateUploads ==
    [][/\ \A i, j \in DOMAIN documents_db' :
             (/\ documents_db'[i].filename = documents_db'[j].filename
              /\ documents_db'[i].size = documents_db'[j].size) => i = j
       /\ \A c \in Clients :
             (/\ upload_document[c].pc = "read"
              /\ result = NoResult
              /\ result'.op = "upload"
              /\ result'.client = c
              /\ \E i \in DOMAIN documents_db :
                    /\ documents_db[i].filename = upload_document[c].filename
                    /\ documents_db[i].size = upload_document[c].size)
             => /\ result'.status = 200
                /\ \E i \in DOMAIN documents_db :
                      /\ documents_db[i].filename = upload_document[c].filename
                      /\ documents_db[i].size = upload_document[c].size
                      /\ documents_db[i].id = result'.document_id
                /\ UNCHANGED <<documents_db, DOCUMENTS_DB_FILE,
                               upload_directory, chroma_db>>]_vars

\* C30's case: a second request for a file that is registered has been
\* answered, while another upload is suspended at its read
C30_Witness ==
    /\ result.op = "upload"
    /\ result.status = 200
    /\ result.message = "Document already exists"
    /\ \E c \in Clients : upload_document[c].pc = "read"

(***************************************************************************)
(* C23: in every pass of _split_text over a window that ends before the    *)
(* end of the text, the first window or a later one, if the last '.' or    *)
(* newline of the window lies at an offset from the window's start that    *)
(* is greater than chunk_size * 0.5, the chunk of that pass is the window  *)
(* up to and including that boundary.                                      *)
(***************************************************************************)
C23_CutAtBoundary ==
    [][(pc = "loop" /\ start < Len(text)) =>
          LET end      == Min(start + chunk_size, Len(text))
              window   == Slice(text, start, end)
              boundary == Max(RFind(window, "."), RFind(window, "\n"))
              cut      == Strip(Slice(window, 0, boundary + 1))
          IN  (end < Len(text) /\ 2 * boundary > chunk_size) =>
                  chunks' = IF cut # << >> /\ Len(chunks) < ChunkCap
                               THEN Append(chunks, cut)
                               ELSE chunks]_vars

\* the chunks put together again: the first whole, every later one without
\* its first ovl characters
RECURSIVE Rebuilt(_, _, _)
Rebuilt(windows, ovl, i) ==
    IF i > Len(windows) THEN << >>
    ELSE (IF i = 1 THEN windows[i].chunk
          ELSE Slice(windows[i].chunk, ovl, Len(windows[i].chunk)))
             \o Rebuilt(windows, ovl, i + 1)

(***************************************************************************)
(* C24: in a call of _split_text that has returned, each window after the  *)
(* first starts exactly overlap characters before the position where the   *)
(* chunk before it was cut, and the chunks as cut (before strip), put      *)
(* together with the first overlap characters of each one after the first  *)
(* dropped, are the text.                                                  *)
(***************************************************************************)
C24_WindowsCoverText ==
    pc = "done" =>
        LET windows == Windows(text, chunk_size, overlap, 0)
        IN  /\ \A i \in 2..Len(windows) :
                  windows[i].start =
                      windows[i - 1].start + Len(windows[i - 1].chunk) - overlap
            /\ Rebuilt(windows, overlap, 1) = text

\* the stored embedding a retrieval result was scored against
StoredEmbedding(r) == documents[r.entry].embeddings[r.chunk_index + 1]

(***************************************************************************)
(* C25: in the ranking of query_documents, no chunk whose stored embedding *)
(* differs in length from the question's embedding stands above a chunk    *)
(* whose stored embedding has the question embedding's length.             *)
(***************************************************************************)
C25_MismatchedRankLowest ==
    result.op = "query" =>
        LET top == result.top_results
            n   == Len(result.question_embedding)
        IN  \A i, j \in DOMAIN top :
                (/\ Len(StoredEmbedding(top[i])) # n
                 /\ Len(StoredEmbedding(top[j])) = n) => j < i

(***************************************************************************)
(* C26: the sources returned by _fallback_query_stream are the documents   *)
(* whose content was put into the prompt context, one source each in the   *)
(* same order; with a non-empty document_ids no source is of a document    *)
(* outside document_ids.                                                   *)
(***************************************************************************)
C26_FallbackSourcesAreContext ==
    stream_generator.kind = "fallback" =>
        LET sources == stream_generator.sources
            ids     == generate_response.document_ids
        IN  /\ [i \in DOMAIN sources |-> sources[i].metadata.id]
                   = stream_generator.context
            /\ Truthy(ids) =>
                  \A i \in DOMAIN sources :
                      sources[i].metadata.id \in Range(ids.ids)

\* the positions of the terminal events (done or error) in an event sequence
TerminalEvents(events) ==
    {i \in DOMAIN events :
        "done" \in DOMAIN events[i] \/ "error" \in DOMAIN events[i]}

(***************************************************************************)
(* C29: the events of generate_response hold at most one terminal event    *)
(* (done or error), and it is the last event; a generate_response that has *)
(* run to its end has sent exactly one.  When the stream raises, after     *)
(* whatever content events, the sequence ends with an error event and      *)
(* holds no done event.                                                    *)
(***************************************************************************)
C29_OneTerminalEvent ==
    LET events   == generate_response.events
        terminal == TerminalEvents(events)
    IN  /\ Cardinality(terminal) <= 1
        /\ terminal \subseteq {Len(events)}
        /\ generate_response.pc = "finished" <=> Cardinality(terminal) = 1
        /\ stream_generator.state = "raised" =>
              /\ terminal = {Len(events)}
              /\ events[Len(events)] = ErrorEvent
              /\ \A i \in DOMAIN events : "done" \notin DOMAIN events[i]

\* C29's case: the stream has raised after a content event was sent
C29_Witness ==
    /\ stream_generator.state = "raised"
    /\ Len(generate_response.events) >= 2
    /\ "content" \in DOMAIN generate_response.events[1]

(***************************************************************************)
(* C28: when fixed_rag_service.py is constructed again over a storage file *)
(* it can read, self.documents and get_document_count() are the list last  *)
(* saved, in LangChain mode and in fallback mode alike.                    *)
(***************************************************************************)
C28_RestartRestoresDocuments ==
    (result.op = "init" /\ result.load_ok) =>
        /\ documents = storage.docs
        /\ GetDocumentCount(documents) = Len(storage.docs)

\* the chunks of the one readable file, under the settings of the tasks' runs
WholeChunks ==
    SplitText(DocumentText(GoodPath), SmallSettings.chunk_size,
              SmallSettings.chunk_overlap)

\* doc is stored whole: all of its chunks, one embedding for each
StoredWhole(doc) ==
    /\ doc.file_path = GoodPath
    /\ doc.chunks = WholeChunks
    /\ Len(doc.embeddings) = Len(doc.chunks)

(***************************************************************************)
(* C27: however process_document, delete_document and query_documents of   *)
(* two tasks interleave at their awaits, every stored document is whole    *)
(* (all of its chunks, one embedding per chunk); every step leaves         *)
(* self.documents as it was, adds one whole document, or removes every     *)
(* entry of one id; and the candidates a query has collected hold, for     *)
(* each stored entry it saw, every chunk of that entry.                    *)
(***************************************************************************)
C27_NoHalfStoredDocument ==
    [][/\ \A i \in DOMAIN documents' : StoredWhole(documents'[i])
       /\ \/ documents' = documents
          \/ /\ Len(documents') = Len(documents) + 1
             /\ SubSeq(documents', 1, Len(documents)) = documents
          \/ \E document_id \in DocIds :
                documents' = DeleteOutcome(documents, document_id).documents
       /\ \A t \in TaskIds :
             tasks'[t].pc = "generate" =>
                 LET seen == tasks'[t].similarities
                 IN  \A i \in DOMAIN seen :
                         {seen[j].chunk_index :
                             j \in {k \in DOMAIN seen : seen[k].entry = seen[i].entry}}
                         = 0..(Len(WholeChunks) - 1)]_vars

\* C27's case: a query has collected its candidates from a stored document
\* of two chunks while the other task is suspended in the embedding loop of
\* process_document with one of its two embeddings
C27_Witness ==
    \E t, u \in TaskIds :
        /\ tasks[t].pc = "generate"
        /\ Len(tasks[t].similarities) >= 2
        /\ tasks[u].pc = "embed"
        /\ Len(tasks[u].chunk_embeddings) = 1
        /\ Len(tasks[u].chunks) = 2

=============================================================================
